---- MODULE Spec2Model ----
(***************************************************************************)
(* NCRP complaint pipeline: normaliser, enrichment, schema-fixed row       *)
(* builder and the deduplicating merge into output/ncrp_master.xlsx.       *)
(*                                                                         *)
(* Representation.  A Python string is a sequence of one-character         *)
(* strings, so that strip() and lower() are computed, not assumed.  A      *)
(* Python value is a record [t, s, n]: t is the type tag ("str", "int",    *)
(* "float", "nan" for the float NaN, "none" for None), s the characters    *)
(* of a str, n the number of an int, or of a float in hundredths.          *)
(***************************************************************************)
EXTENDS Integers, Sequences, FiniteSets, TLC

(* ---------------------------- bounds ---------------------------------- *)

\* a merge or save is started only while the store has at most this many rows
MaxStore == 2
\* number of store-writing calls in one behaviour
MaxOps == 3
\* length of the generated amount texts
MaxLen == 3

(* ---------------------------- strings --------------------------------- *)

WS == {" ", "\t", "\n", "\r"}

UpperAZ == <<"A","B","C","D","E","F","G","H","I","J","K","L","M",
             "N","O","P","Q","R","S","T","U","V","W","X","Y","Z">>
LowerAZ == <<"a","b","c","d","e","f","g","h","i","j","k","l","m",
             "n","o","p","q","r","s","t","u","v","w","x","y","z">>

Digits == <<"0","1","2","3","4","5","6","7","8","9">>

IsDigit(c) == \E i \in 1..10 : Digits[i] = c

DigitVal(c) == (CHOOSE i \in 1..10 : Digits[i] = c) - 1

LowerChar(c) ==
  IF \E i \in 1..26 : UpperAZ[i] = c
  THEN LowerAZ[CHOOSE i \in 1..26 : UpperAZ[i] = c]
  ELSE c

UpperChar(c) ==
  IF \E i \in 1..26 : LowerAZ[i] = c
  THEN UpperAZ[CHOOSE i \in 1..26 : LowerAZ[i] = c]
  ELSE c

\* str.lower()
Lower(s) == [i \in 1..Len(s) |-> LowerChar(s[i])]

\* str.upper()
Upper(s) == [i \in 1..Len(s) |-> UpperChar(s[i])]

RECURSIVE LStrip(_)
LStrip(s) == IF s # <<>> /\ Head(s) \in WS THEN LStrip(Tail(s)) ELSE s

RECURSIVE RStrip(_)
RStrip(s) ==
  IF s # <<>> /\ s[Len(s)] \in WS THEN RStrip(SubSeq(s, 1, Len(s) - 1)) ELSE s

\* str.strip()
Strip(s) == RStrip(LStrip(s))

\* sub in s
Contains(s, sub) ==
  \E i \in 1..(Len(s) - Len(sub) + 1) : SubSeq(s, i, i + Len(sub) - 1) = sub

\* the sentinel "Not Available"
NotAvailable == <<"N","o","t"," ","A","v","a","i","l","a","b","l","e">>

s_nan == <<"n","a","n">>
s_none == <<"n","o","n","e">>
s_null == <<"n","u","l","l">>
s_n_a == <<"n","/","a">>
s_na == <<"n","a">>
s_None == <<"N","o","n","e">>
s_Pending == <<"P","e","n","d","i","n","g">>
s_NO == <<"N","O">>
s_YES == <<"Y","E","S">>
s_UNKNOWN == <<"U","N","K","N","O","W","N">>
s_MIXED == <<"M","I","X","E","D">>
s_SINGLE_LARGE == <<"S","I","N","G","L","E","_","L","A","R","G","E">>
s_MULTIPLE_SMALL == <<"M","U","L","T","I","P","L","E","_","S","M","A","L","L">>
s_ON_TIME == <<"O","N","_","T","I","M","E">>
s_DELAYED == <<"D","E","L","A","Y","E","D">>
s_NOT_AVAILABLE == <<"N","O","T","_","A","V","A","I","L","A","B","L","E">>

\* the tokens normalize_string / normalize_complaint_id / normalize_amount
\* compare the lower-cased text with
NullTokens == {s_nan, s_none, s_null, s_n_a, s_na}

(* ---------------------------- values ---------------------------------- *)

VStr(s) == [t |-> "str", s |-> s, n |-> 0]
VInt(n) == [t |-> "int", s |-> <<>>, n |-> n]
\* a float, given in hundredths: VFlt(150050) is 1500.5
VFlt(c) == [t |-> "float", s |-> <<>>, n |-> c]
VNaN == [t |-> "nan", s |-> <<>>, n |-> 0]
VNone == [t |-> "none", s |-> <<>>, n |-> 0]

\* isinstance(v, (int, float))
IsNumber(v) == v.t \in {"int", "float", "nan"}

RECURSIVE NatToStr(_)
NatToStr(n) ==
  IF n < 10 THEN <<Digits[n + 1]>>
  ELSE NatToStr(n \div 10) \o <<Digits[(n % 10) + 1]>>

IntToStr(n) == IF n < 0 THEN <<"-">> \o NatToStr(0 - n) ELSE NatToStr(n)

\* repr of a float given in hundredths: 1500.0, 1500.5, 0.25, -3.0
FltToStr(c) ==
  LET a == IF c < 0 THEN 0 - c ELSE c
      whole == a \div 100
      frac == a % 100
      fs == IF frac % 10 = 0 THEN <<Digits[(frac \div 10) + 1]>>
            ELSE <<Digits[(frac \div 10) + 1], Digits[(frac % 10) + 1]>>
  IN (IF c < 0 THEN <<"-">> ELSE <<>>) \o NatToStr(whole) \o <<".">> \o fs

\* str(v)
PyStr(v) ==
  CASE v.t = "str" -> v.s
    [] v.t = "int" -> IntToStr(v.n)
    [] v.t = "float" -> FltToStr(v.n)
    [] v.t = "nan" -> s_nan
    [] OTHER -> s_None

\* truth value of v in "x if v else y"
Truthy(v) ==
  CASE v.t = "str" -> v.s # <<>>
    [] v.t = "int" -> v.n # 0
    [] v.t = "float" -> v.n # 0
    [] v.t = "nan" -> TRUE
    [] OTHER -> FALSE

\* dict.get(key): the default argument left out, None for a missing key
Get_no_default(d, key, default) == IF key \in DOMAIN d THEN d[key] ELSE VNone

\* dict.get(key, default)
Get(d, key, default) == IF key \in DOMAIN d THEN d[key] ELSE default

(* --------------------- processors/normalizer.py ----------------------- *)

\* normalize_string with a case-sensitive token test and a lower-cased
\* result
normalize_string_lowered(value) ==
  IF value.t = "none" THEN NotAvailable
  ELSE LET value_str == Strip(PyStr(value))
       IN IF value_str = <<>> \/ value_str \in NullTokens
          THEN NotAvailable
          ELSE Lower(value_str)

\* normalize_string(value)
normalize_string(value) ==
  IF value.t = "none" THEN NotAvailable
  ELSE LET value_str == Strip(PyStr(value))
       IN IF value_str = <<>> \/ Lower(value_str) \in (NullTokens \cup {<<>>})
          THEN NotAvailable
          ELSE value_str

\* re.sub(r'[₹,Rs\.\s]', '', value_str, flags=re.IGNORECASE)
AmountJunk == {"₹", ",", "R", "r", "S", "s", "."} \cup WS

RECURSIVE RemoveChars(_, _)
RemoveChars(s, junk) ==
  IF s = <<>> THEN <<>>
  ELSE IF Head(s) \in junk THEN RemoveChars(Tail(s), junk)
       ELSE <<Head(s)>> \o RemoveChars(Tail(s), junk)

RECURSIVE DigitsToNat(_)
DigitsToNat(s) ==
  IF s = <<>> THEN 0 ELSE DigitsToNat(SubSeq(s, 1, Len(s) - 1)) * 10 + DigitVal(s[Len(s)])

AllDigits(s) == s # <<>> /\ \A i \in 1..Len(s) : IsDigit(s[i])

\* float(text): an optional sign, digits and at most two decimals give the
\* number (in hundredths), "nan" with an optional sign gives the float NaN,
\* any other text raises ValueError (ok = FALSE).  Exponents, "inf",
\* digit-group underscores and longer fractions are not among the inputs
\* the model enumerates.
ParseFloat(text) ==
  LET s == Strip(text)
      signed == s # <<>> /\ Head(s) \in {"+", "-"}
      body == IF signed THEN Tail(s) ELSE s
      sign == IF signed /\ Head(s) = "-" THEN 0 - 1 ELSE 1
      dots == {i \in 1..Len(body) : body[i] = "."}
      dpos == IF dots = {} THEN Len(body) + 1 ELSE CHOOSE i \in dots : TRUE
      ip == SubSeq(body, 1, dpos - 1)
      fp == SubSeq(body, dpos + 1, Len(body))
      fp2 == SubSeq(fp \o <<"0", "0">>, 1, 2)
  IN IF /\ Cardinality(dots) <= 1
        /\ (ip # <<>> \/ fp # <<>>)
        /\ (ip = <<>> \/ AllDigits(ip))
        /\ (fp = <<>> \/ (AllDigits(fp) /\ Len(fp) <= 2))
     THEN [ok |-> TRUE,
           v |-> VFlt(sign * (DigitsToNat(ip) * 100 + DigitsToNat(fp2)))]
     ELSE IF Lower(body) = s_nan THEN [ok |-> TRUE, v |-> VNaN]
     ELSE [ok |-> FALSE, v |-> VFlt(0)]

\* float(value) of a number
ToFloat(v) == IF v.t = "int" THEN VFlt(v.n * 100) ELSE v

\* normalize_amount(value)
normalize_amount(value) ==
  IF value.t = "none" THEN VFlt(0)
  ELSE IF IsNumber(value) THEN ToFloat(value)
  ELSE LET value_str == Strip(PyStr(value))
       IN IF value_str = <<>> \/ Lower(value_str) \in NullTokens
          THEN VFlt(0)
          ELSE LET p == ParseFloat(RemoveChars(value_str, AmountJunk))
               IN IF p.ok THEN p.v ELSE VFlt(0)

\* The exponential-notation recovery of normalize_complaint_id.  The text
\* has the shape  digits [. digits] (e|E) + digits ; the number it denotes
\* is above 1e10 when it has more than 11 integer digits, or exactly 11
\* and is not 10000000000.  str(int(num)) is the digit string.
SciParts(s) ==
  LET low == Lower(s)
      epos == CHOOSE i \in 1..Len(low) : low[i] = "e"
      mant == SubSeq(low, 1, epos - 1)
      expo == SubSeq(low, epos + 2, Len(low))
      hasDot == \E i \in 1..Len(mant) : mant[i] = "."
      dpos == IF hasDot THEN CHOOSE i \in 1..Len(mant) : mant[i] = "."
              ELSE Len(mant) + 1
      ip == SubSeq(mant, 1, dpos - 1)
      fp == SubSeq(mant, dpos + 1, Len(mant))
  IN [ok |-> /\ Len(low) >= 4
             /\ Cardinality({i \in 1..Len(low) : low[i] = "e"}) = 1
             /\ epos + 1 <= Len(low)
             /\ low[epos + 1] = "+"
             /\ AllDigits(ip) /\ Head(ip) # "0"
             /\ (fp = <<>> \/ AllDigits(fp))
             /\ AllDigits(expo),
      ip |-> ip, fp |-> fp,
      e |-> IF AllDigits(expo) THEN DigitsToNat(expo) ELSE 0]

RECURSIVE Zeros(_)
Zeros(k) == IF k <= 0 THEN <<>> ELSE <<"0">> \o Zeros(k - 1)

SciDigits(p) ==
  IF Len(p.fp) >= p.e THEN p.ip \o SubSeq(p.fp, 1, p.e)
  ELSE p.ip \o p.fp \o Zeros(p.e - Len(p.fp))

\* normalize_complaint_id(value)
normalize_complaint_id(value) ==
  IF value.t = "none" THEN NotAvailable
  ELSE LET value_str == Strip(PyStr(value))
           low == Lower(value_str)
       IN IF value_str = <<>> \/ low \in NullTokens
          THEN NotAvailable
          ELSE IF Contains(low, <<"e", "+">>) \/ Contains(low, <<"e", "-">>)
               THEN LET p == SciParts(value_str)
                        d == IF p.ok THEN SciDigits(p) ELSE <<>>
                    IN IF p.ok /\ (Len(d) > 11
                                   \/ (Len(d) = 11 /\ d # <<"1">> \o Zeros(10)))
                       THEN d
                       ELSE value_str
               ELSE value_str

(* -------------------- processors/deduplicator.py ---------------------- *)

\* the fixed column schema
COLUMNS == <<"Complaint_ID", "Complaint_Date", "Incident_Date", "Category",
             "Sub_Category", "District", "State", "Amount_Lost", "Status",
             "Transaction_Count", "Data_Quality_Score", "Investigation_Ready",
             "Reporting_Delay_Days", "Reporting_Delay_Status",
             "Transaction_Pattern", "Source_File_Type">>

Range(f) == {f[i] : i \in DOMAIN f}

\* the value of a number in hundredths (not for NaN)
Num100(v) == IF v.t = "int" THEN v.n * 100 ELSE v.n

\* isinstance(v, (int, float)) and v > 0
IsPositiveNumber(v) == v.t \in {"int", "float"} /\ Num100(v) > 0

\* str(complaint.get(key, '')).strip() is non-empty and not the sentinel
Present(complaint, key) ==
  LET text == Strip(PyStr(Get(complaint, key, VStr(<<>>))))
  IN text # <<>> /\ text # NotAvailable

\* the score with District or State in place of District and State
calculate_data_quality_score_either(complaint) ==
  (IF Present(complaint, "Complaint_ID") THEN 20 ELSE 0)
  + (IF Present(complaint, "Complaint_Date") THEN 20 ELSE 0)
  + (IF IsPositiveNumber(Get(complaint, "Amount_Lost", VInt(0))) THEN 20 ELSE 0)
  + (IF Present(complaint, "District") \/ Present(complaint, "State")
     THEN 20 ELSE 0)
  + (IF IsPositiveNumber(Get(complaint, "Transaction_Count", VInt(0)))
     THEN 20 ELSE 0)

\* calculate_data_quality_score(complaint)
calculate_data_quality_score(complaint) ==
  (IF Present(complaint, "Complaint_ID") THEN 20 ELSE 0)
  + (IF Present(complaint, "Complaint_Date") THEN 20 ELSE 0)
  + (IF IsPositiveNumber(Get(complaint, "Amount_Lost", VInt(0))) THEN 20 ELSE 0)
  + (IF Present(complaint, "District") /\ Present(complaint, "State")
     THEN 20 ELSE 0)
  + (IF IsPositiveNumber(Get(complaint, "Transaction_Count", VInt(0)))
     THEN 20 ELSE 0)

\* the readiness flag without the test of Bank_Platform_Info
calculate_investigation_readiness_no_bank(complaint) ==
  LET amount_ok == IsPositiveNumber(Get(complaint, "Amount_Lost", VInt(0)))
      transaction_ok ==
        IsPositiveNumber(Get(complaint, "Transaction_Count", VInt(0)))
  IN IF amount_ok /\ transaction_ok THEN s_YES ELSE s_NO

\* calculate_investigation_readiness(complaint)
calculate_investigation_readiness(complaint) ==
  LET amount_ok == IsPositiveNumber(Get(complaint, "Amount_Lost", VInt(0)))
      transaction_ok ==
        IsPositiveNumber(Get(complaint, "Transaction_Count", VInt(0)))
      bank_ok == Present(complaint, "Bank_Platform_Info")
  IN IF amount_ok /\ transaction_ok /\ bank_ok THEN s_YES ELSE s_NO

IsLeap(y) == (y % 4 = 0 /\ y % 100 # 0) \/ y % 400 = 0

DaysInMonth(y, m) ==
  IF m = 2 THEN (IF IsLeap(y) THEN 29 ELSE 28)
  ELSE IF m \in {4, 6, 9, 11} THEN 30 ELSE 31

\* days since 1970-01-01 of a calendar date
DayNumber(y, m, d) ==
  LET yy == IF m <= 2 THEN y - 1 ELSE y
      era == yy \div 400
      yoe == yy - era * 400
      mp == IF m > 2 THEN m - 3 ELSE m + 9
      doy == (153 * mp + 2) \div 5 + d - 1
      doe == yoe * 365 + yoe \div 4 - yoe \div 100 + doy
  IN era * 146097 + doe - 719468

\* pd.to_datetime(text) for the date texts the extractors produce:
\* YYYY-MM-DD with a real calendar date parses, any other text raises.
ToDatetime(s) ==
  LET shaped == /\ Len(s) = 10
                /\ s[5] = "-" /\ s[8] = "-"
                /\ AllDigits(SubSeq(s, 1, 4))
                /\ AllDigits(SubSeq(s, 6, 7))
                /\ AllDigits(SubSeq(s, 9, 10))
      y == DigitsToNat(SubSeq(s, 1, 4))
      m == DigitsToNat(SubSeq(s, 6, 7))
      d == DigitsToNat(SubSeq(s, 9, 10))
      valid == shaped /\ y >= 1 /\ m \in 1..12 /\ d >= 1 /\ d <= DaysInMonth(y, m)
  IN [ok |-> valid, day |-> IF valid THEN DayNumber(y, m, d) ELSE 0]

\* the reporting delay with DELAYED from seven days on
calculate_reporting_delay_from_7(complaint) ==
  LET complaint_date_str ==
        Strip(PyStr(Get(complaint, "Complaint_Date", VStr(<<>>))))
      incident_date_str ==
        Strip(PyStr(Get(complaint, "Incident_Date", VStr(<<>>))))
      complaint_date == ToDatetime(complaint_date_str)
      incident_date == ToDatetime(incident_date_str)
      delay_days == complaint_date.day - incident_date.day
  IN IF complaint_date_str = <<>> \/ complaint_date_str = NotAvailable
     THEN <<0, s_NOT_AVAILABLE>>
     ELSE IF incident_date_str = <<>> \/ incident_date_str = NotAvailable
     THEN <<0, s_NOT_AVAILABLE>>
     ELSE IF complaint_date.ok /\ incident_date.ok
     THEN <<delay_days, IF delay_days >= 7 THEN s_DELAYED ELSE s_ON_TIME>>
     ELSE <<0, s_NOT_AVAILABLE>>

\* calculate_reporting_delay(complaint): <<delay_days, status>>
calculate_reporting_delay(complaint) ==
  LET complaint_date_str ==
        Strip(PyStr(Get(complaint, "Complaint_Date", VStr(<<>>))))
      incident_date_str ==
        Strip(PyStr(Get(complaint, "Incident_Date", VStr(<<>>))))
      complaint_date == ToDatetime(complaint_date_str)
      incident_date == ToDatetime(incident_date_str)
      delay_days == complaint_date.day - incident_date.day
  IN IF complaint_date_str = <<>> \/ complaint_date_str = NotAvailable
     THEN <<0, s_NOT_AVAILABLE>>
     ELSE IF incident_date_str = <<>> \/ incident_date_str = NotAvailable
     THEN <<0, s_NOT_AVAILABLE>>
     ELSE IF complaint_date.ok /\ incident_date.ok
     THEN <<delay_days, IF delay_days > 7 THEN s_DELAYED ELSE s_ON_TIME>>
     ELSE <<0, s_NOT_AVAILABLE>>

\* the transaction pattern with SINGLE_LARGE from 50000 on
calculate_transaction_pattern_from_50000(complaint) ==
  LET tc_raw == Get(complaint, "Transaction_Count", VInt(0))
      am_raw == Get(complaint, "Amount_Lost", VInt(0))
      transaction_count == IF IsNumber(tc_raw) THEN tc_raw ELSE VInt(0)
      amount == IF IsNumber(am_raw) THEN am_raw ELSE VInt(0)
      tcNum == transaction_count.t # "nan"
      amNum == amount.t # "nan"
  IN IF tcNum /\ Num100(transaction_count) = 100
        /\ amNum /\ Num100(amount) >= 5000000
     THEN s_SINGLE_LARGE
     ELSE IF tcNum /\ Num100(transaction_count) > 100
     THEN IF amNum /\ Num100(amount) < 10000 * Num100(transaction_count)
          THEN s_MULTIPLE_SMALL
          ELSE s_MIXED
     ELSE s_MIXED

\* calculate_transaction_pattern(complaint)
calculate_transaction_pattern(complaint) ==
  LET tc_raw == Get(complaint, "Transaction_Count", VInt(0))
      am_raw == Get(complaint, "Amount_Lost", VInt(0))
      transaction_count == IF IsNumber(tc_raw) THEN tc_raw ELSE VInt(0)
      amount == IF IsNumber(am_raw) THEN am_raw ELSE VInt(0)
      tcNum == transaction_count.t # "nan"
      amNum == amount.t # "nan"
  IN IF tcNum /\ Num100(transaction_count) = 100
        /\ amNum /\ Num100(amount) > 5000000
     THEN s_SINGLE_LARGE
     ELSE IF tcNum /\ Num100(transaction_count) > 100
     THEN IF amNum /\ Num100(amount) < 10000 * Num100(transaction_count)
          THEN s_MULTIPLE_SMALL
          ELSE s_MIXED
     ELSE s_MIXED

EnrichedKeys == {"Data_Quality_Score", "Investigation_Ready",
                 "Reporting_Delay_Days", "Reporting_Delay_Status",
                 "Transaction_Pattern"}

\* enhance keeping the reporting-delay values the complaint arrived with
enhance_keep_supplied(complaint) ==
  LET delay == calculate_reporting_delay(complaint)
  IN [k \in (DOMAIN complaint) \cup EnrichedKeys |->
        CASE k = "Data_Quality_Score" ->
               VInt(calculate_data_quality_score(complaint))
          [] k = "Investigation_Ready" ->
               VStr(calculate_investigation_readiness(complaint))
          [] k = "Reporting_Delay_Days" ->
               Get(complaint, k, VInt(delay[1]))
          [] k = "Reporting_Delay_Status" ->
               Get(complaint, k, VStr(delay[2]))
          [] k = "Transaction_Pattern" ->
               VStr(calculate_transaction_pattern(complaint))
          [] OTHER -> complaint[k]]

\* one iteration of apply_intelligence_features: the copy of the complaint
\* with the five derived keys set
enhance(complaint) ==
  LET delay == calculate_reporting_delay(complaint)
  IN [k \in (DOMAIN complaint) \cup EnrichedKeys |->
        CASE k = "Data_Quality_Score" ->
               VInt(calculate_data_quality_score(complaint))
          [] k = "Investigation_Ready" ->
               VStr(calculate_investigation_readiness(complaint))
          [] k = "Reporting_Delay_Days" -> VInt(delay[1])
          [] k = "Reporting_Delay_Status" -> VStr(delay[2])
          [] k = "Transaction_Pattern" ->
               VStr(calculate_transaction_pattern(complaint))
          [] OTHER -> complaint[k]]

\* apply_intelligence_features(complaints)
apply_intelligence_features(complaints) ==
  [i \in 1..Len(complaints) |-> enhance(complaints[i])]

\* int(v): ok is FALSE where Python raises (NaN, a text that is not an
\* integer literal, None)
PyInt(v) ==
  CASE v.t = "int" -> [ok |-> TRUE, n |-> v.n]
    [] v.t = "float" ->
         [ok |-> TRUE,
          n |-> IF v.n >= 0 THEN v.n \div 100 ELSE 0 - ((0 - v.n) \div 100)]
    [] v.t = "str" ->
         LET text == Strip(v.s)
             signed == text # <<>> /\ Head(text) \in {"+", "-"}
             body == IF signed THEN Tail(text) ELSE text
         IN IF AllDigits(body)
            THEN [ok |-> TRUE,
                  n |-> IF signed /\ Head(text) = "-"
                        THEN 0 - DigitsToNat(body) ELSE DigitsToNat(body)]
            ELSE [ok |-> FALSE, n |-> 0]
    [] OTHER -> [ok |-> FALSE, n |-> 0]

\* int(raw) if raw else 0
IntOrZero(raw) == IF Truthy(raw) THEN PyInt(raw) ELSE [ok |-> TRUE, n |-> 0]

\* build_row_from_complaint raises (ValueError from int()) on this record
build_row_raises(complaint) ==
  \/ ~IntOrZero(Get(complaint, "Transaction_Count", VInt(0))).ok
  \/ ~IntOrZero(Get(complaint, "Data_Quality_Score", VInt(0))).ok
  \/ ~IntOrZero(Get(complaint, "Reporting_Delay_Days", VInt(0))).ok

\* a row built by copying the schema keys the complaint has, instead of
\* naming every column
build_row_present_only(complaint, source_file_type) ==
  [k \in ((DOMAIN complaint) \cap Range(COLUMNS)) \cup {"Source_File_Type"} |->
     IF k = "Source_File_Type" THEN VStr(Upper(source_file_type))
     ELSE VStr(PyStr(complaint[k]))]

\* build_row_from_complaint(complaint, source_file_type)
build_row_from_complaint(complaint, source_file_type) ==
  [Complaint_ID |->
     VStr(normalize_complaint_id(Get(complaint, "Complaint_ID", VStr(<<>>)))),
   Complaint_Date |->
     VStr(normalize_string(Get(complaint, "Complaint_Date", VStr(<<>>)))),
   Incident_Date |->
     VStr(normalize_string(Get(complaint, "Incident_Date", VStr(<<>>)))),
   Category |-> VStr(normalize_string(Get(complaint, "Category", VStr(<<>>)))),
   Sub_Category |->
     VStr(normalize_string(Get(complaint, "Sub_Category", VStr(<<>>)))),
   District |-> VStr(normalize_string(Get(complaint, "District", VStr(<<>>)))),
   State |-> VStr(normalize_string(Get(complaint, "State", VStr(<<>>)))),
   Amount_Lost |-> normalize_amount(Get(complaint, "Amount_Lost", VInt(0))),
   Status |-> VStr(normalize_string(Get(complaint, "Status", VStr(s_Pending)))),
   Transaction_Count |->
     VInt(IntOrZero(Get(complaint, "Transaction_Count", VInt(0))).n),
   Data_Quality_Score |->
     VInt(IntOrZero(Get(complaint, "Data_Quality_Score", VInt(0))).n),
   Investigation_Ready |->
     VStr(PyStr(Get(complaint, "Investigation_Ready", VStr(s_NO)))),
   Reporting_Delay_Days |->
     VInt(IntOrZero(Get(complaint, "Reporting_Delay_Days", VInt(0))).n),
   Reporting_Delay_Status |->
     VStr(PyStr(Get(complaint, "Reporting_Delay_Status", VStr(s_UNKNOWN)))),
   Transaction_Pattern |->
     VStr(PyStr(Get(complaint, "Transaction_Pattern", VStr(s_MIXED)))),
   Source_File_Type |-> VStr(Upper(source_file_type))]

\* [row[col] for col in COLUMNS]
Positional(row) == [i \in 1..Len(COLUMNS) |-> row[COLUMNS[i]]]

(* ------------------ the workbook output/ncrp_master.xlsx -------------- *)

\* the texts pd.read_excel turns into NaN when it reads a cell (its
\* default na_values; keep_default_na is not switched off at either
\* read_excel call)
PandasNA ==
  { <<>>,
    <<"#","N","/","A">>, <<"#","N","/","A"," ","N","/","A">>,
    <<"#","N","A">>, <<"-","1",".","#","I","N","D">>,
    <<"-","1",".","#","Q","N","A","N">>, <<"-","N","a","N">>,
    <<"-","n","a","n">>, <<"1",".","#","I","N","D">>,
    <<"1",".","#","Q","N","A","N">>, <<"<","N","A",">">>,
    <<"N","/","A">>, <<"N","A">>, <<"N","U","L","L">>, <<"N","a","N">>,
    <<"N","o","n","e">>, <<"n","/","a">>, <<"n","a","n">>,
    <<"n","u","l","l">> }

\* the value read_excel delivers for a stored cell: an empty cell and a
\* text of PandasNA are NaN, every other cell is its value
ReadCell(cell) ==
  IF cell.t = "none" \/ (cell.t = "str" /\ cell.s \in PandasNA) THEN VNaN
  ELSE cell

\* pd.notna(val)
NotNa(val) == val.t \notin {"nan", "none"}

\* float(val): ok is FALSE where Python raises
PyFloat(val) ==
  CASE val.t \in {"int", "float", "nan"} -> [ok |-> TRUE, v |-> ToFloat(val)]
    [] val.t = "str" -> ParseFloat(val.s)
    [] OTHER -> [ok |-> FALSE, v |-> VFlt(0)]

IntColumns == {"Transaction_Count", "Data_Quality_Score", "Reporting_Delay_Days"}

\* the default of a column the workbook does not have
DefaultCell(col) ==
  IF col = "Amount_Lost" THEN VFlt(0)
  ELSE IF col \in IntColumns THEN VInt(0)
  ELSE VStr(NotAvailable)

\* one cell of the rebuilt existing row (append_to_master_excel, the loop
\* over COLUMNS): ok is FALSE where float() or int() raises
ExistingCell(col, raw, cols) ==
  IF col \in Range(cols)
  THEN LET val == ReadCell(raw[col])
       IN CASE col = "Complaint_ID" -> [ok |-> TRUE, v |-> VStr(PyStr(val))]
            [] col = "Amount_Lost" ->
                 IF NotNa(val) THEN PyFloat(val)
                 ELSE [ok |-> TRUE, v |-> VFlt(0)]
            [] col \in IntColumns ->
                 IF NotNa(val)
                 THEN [ok |-> PyInt(val).ok, v |-> VInt(PyInt(val).n)]
                 ELSE [ok |-> TRUE, v |-> VInt(0)]
            [] OTHER ->
                 [ok |-> TRUE,
                  v |-> VStr(IF NotNa(val) THEN PyStr(val) ELSE NotAvailable)]
  ELSE [ok |-> TRUE, v |-> DefaultCell(col)]

\* existing_df of append_to_master_excel for a workbook in state st with
\* header cols and data rows rows: no rows when the file is absent, when
\* reading it raises, or when a float()/int() of the rebuild raises
load_existing(st, cols, rows) ==
  IF st # "ok" THEN <<>>
  ELSE IF \E i \in 1..Len(rows) : \E c \in Range(COLUMNS) :
            ~ExistingCell(c, rows[i], cols).ok
  THEN <<>>
  ELSE [i \in 1..Len(rows) |->
          [c \in Range(COLUMNS) |-> ExistingCell(c, rows[i], cols).v]]

\* set(existing_df['Complaint_ID'].astype(str).str.strip())
existing_ids_of(existing_df) ==
  {Strip(PyStr(existing_df[i]["Complaint_ID"])) : i \in 1..Len(existing_df)}

\* filter_rows without existing_ids.add(complaint_id)
RECURSIVE filter_rows_no_add(_, _)
filter_rows_no_add(new_rows, existing_ids) ==
  IF new_rows = <<>> THEN <<>>
  ELSE LET row == Head(new_rows)
           complaint_id == Strip(PyStr(row["Complaint_ID"]))
       IN IF complaint_id # <<>> /\ complaint_id # NotAvailable
             /\ complaint_id \notin existing_ids
          THEN <<row>> \o filter_rows_no_add(Tail(new_rows), existing_ids)
          ELSE filter_rows_no_add(Tail(new_rows), existing_ids)

\* filter_rows without the test against "Not Available"
RECURSIVE filter_rows_keep_sentinel(_, _)
filter_rows_keep_sentinel(new_rows, existing_ids) ==
  IF new_rows = <<>> THEN <<>>
  ELSE LET row == Head(new_rows)
           complaint_id == Strip(PyStr(row["Complaint_ID"]))
       IN IF complaint_id # <<>> /\ complaint_id \notin existing_ids
          THEN <<row>> \o filter_rows_keep_sentinel(Tail(new_rows),
                             existing_ids \cup {complaint_id})
          ELSE filter_rows_keep_sentinel(Tail(new_rows), existing_ids)

\* the filter loop of append_to_master_excel: the accepted rows, in order
RECURSIVE filter_rows(_, _)
filter_rows(new_rows, existing_ids) ==
  IF new_rows = <<>> THEN <<>>
  ELSE LET row == Head(new_rows)
           complaint_id == Strip(PyStr(row["Complaint_ID"]))
       IN IF complaint_id # <<>> /\ complaint_id # NotAvailable
             /\ complaint_id \notin existing_ids
          THEN <<row>> \o filter_rows(Tail(new_rows),
                                      existing_ids \cup {complaint_id})
          ELSE filter_rows(Tail(new_rows), existing_ids)

\* pd.to_numeric(x, errors='coerce') then fillna(0): the number in hundredths
NumericOrZero(v) ==
  CASE v.t \in {"int", "float"} -> Num100(v)
    [] v.t = "str" ->
         IF ParseFloat(v.s).ok /\ ParseFloat(v.s).v.t = "float"
         THEN ParseFloat(v.s).v.n ELSE 0
    [] OTHER -> 0

\* "Force data types": astype(str) on the text columns, to_numeric /
\* fillna / astype on the numeric ones
force_types(row) ==
  [c \in Range(COLUMNS) |->
     IF c = "Amount_Lost" THEN VFlt(NumericOrZero(row[c]))
     ELSE IF c \in IntColumns
     THEN VInt(PyInt(VFlt(NumericOrZero(row[c]))).n)
     ELSE VStr(PyStr(row[c]))]

\* safe_write_excel(df, filepath): the data rows of the written workbook
\* (the header is COLUMNS; df always has the fixed schema here)
safe_write_excel(df) == [i \in 1..Len(df) |-> force_types(df[i])]

\* combine with combined_df = filtered_df whenever rows were accepted
combine_new_only(existing_df, filtered_rows) ==
  LET combined == IF filtered_rows # <<>> THEN filtered_rows ELSE existing_df
  IN [i \in 1..Len(combined) |-> force_types(combined[i])]

\* combined_df of append_to_master_excel after the final type forcing
combine(existing_df, filtered_rows) ==
  LET combined == existing_df \o filtered_rows
  IN [i \in 1..Len(combined) |-> force_types(combined[i])]

(* ----------------------------- inputs --------------------------------- *)

t_A1 == <<"A","1">>
t_A1_padded == <<" ","A","1"," ">>
t_B2 == <<"B","2">>
t_NA_token == <<"-","n","a","n">>
t_NA == <<"N","A">>
t_date_10 == <<"2","0","2","4","-","0","1","-","1","0">>
t_date_01 == <<"2","0","2","4","-","0","1","-","0","1">>
t_Pune == <<"P","u","n","e">>
t_Goa == <<"G","o","a">>
t_SBI == <<"S","B","I">>
t_Fraud == <<"F","r","a","u","d">>
t_amount == <<"1",",","5","0","0",".","5","0">>
t_D4 == <<"D","4">>

\* complaint records as the extractors hand them to the merge: a complete
\* record, the same identifier with surrounding blanks, a sparse record
\* with a text amount, a record without identifier, one whose identifier
\* is the sentinel, one whose identifier the normaliser maps to the
\* sentinel, one whose identifier is a text read_excel reads as NaN, and
\* one that arrives with reporting-delay values of its own
c_full ==
  [Complaint_ID |-> VStr(t_A1), Complaint_Date |-> VStr(t_date_10),
   Incident_Date |-> VStr(t_date_01), District |-> VStr(t_Pune),
   State |-> VStr(t_Goa), Amount_Lost |-> VFlt(6000000),
   Transaction_Count |-> VInt(1), Bank_Platform_Info |-> VStr(t_SBI)]
c_padded == [Complaint_ID |-> VStr(t_A1_padded), Category |-> VStr(t_Fraud)]
c_sparse ==
  [Complaint_ID |-> VStr(t_B2), Amount_Lost |-> VStr(t_amount),
   Transaction_Count |-> VInt(3), Status |-> VNone]
c_no_id == [Category |-> VStr(t_Fraud)]
c_sentinel == [Complaint_ID |-> VStr(NotAvailable), State |-> VStr(t_Goa)]
c_null == [Complaint_ID |-> VStr(t_NA), State |-> VStr(t_Goa)]
c_token == [Complaint_ID |-> VStr(t_NA_token)]
c_carried ==
  [Complaint_ID |-> VStr(t_D4), Complaint_Date |-> VStr(t_date_10),
   Incident_Date |-> VStr(t_date_01), Reporting_Delay_Days |-> VInt(3),
   Reporting_Delay_Status |-> VStr(s_UNKNOWN)]

Complaints ==
  {c_full, c_padded, c_sparse, c_no_id, c_sentinel, c_null, c_token,
   c_carried}

\* the batches handed to append_to_master_excel: the empty batch, single
\* records, the same identifier twice (equal rows, and rows that differ
\* only around the identifier, in both orders), valid rows mixed with
\* rows without a usable identifier, and rows none of which is usable
Batches ==
  { <<>>,
    <<c_full>>, <<c_padded>>, <<c_sparse>>, <<c_token>>,
    <<c_sparse, c_sparse>>, <<c_full, c_padded>>, <<c_padded, c_full>>,
    <<c_no_id, c_sparse>>, <<c_null, c_full, c_sentinel>>,
    <<c_sentinel, c_no_id>>, <<c_full, c_sparse>>, <<c_carried>> }

\* file_ext of an accepted upload (ALLOWED_EXTENSIONS)
t_pdf == <<"p","d","f">>
t_csv == <<"c","s","v">>
t_xlsx == <<"x","l","s","x">>
t_xls == <<"x","l","s">>
FileExts == {t_pdf, t_csv, t_xlsx, t_xls}

\* the source_file_type arguments the merge is run with
MergeExts == {t_pdf, t_xlsx}

\* build_row_from_complaint(enhance(c), e) for the enumerated inputs
RowTable ==
  [c \in Complaints |->
     [e \in FileExts |-> build_row_from_complaint(enhance(c), e)]]

\* new_rows of append_to_master_excel
build_rows(complaints, source_file_type) ==
  [i \in 1..Len(complaints) |-> RowTable[complaints[i]][source_file_type]]

\* build_row_from_complaint raises for one of the complaints
RaiseTable == [c \in Complaints |-> build_row_raises(enhance(c))]

rows_raise(complaints) ==
  \E i \in 1..Len(complaints) : RaiseTable[complaints[i]]

(* ------------------------------ state --------------------------------- *)

VARIABLES
  fileState,   \* output/ncrp_master.xlsx: "absent", "ok" or "corrupt"
  fileCols,    \* its header row
  fileRows,    \* its data rows, each a function from the header names
  last,        \* the last completed call: arguments, result, store before
  nOps,        \* number of calls so far
  inv,         \* the interleaved invocations of append_to_master_excel
  built,       \* one call of build_row_from_complaint: argument and result
  fn           \* one call of a normaliser, the enrichment or an extractor

vars == <<fileState, fileCols, fileRows, last, nOps, inv, built, fn>>

\* the invocations that may run at the same time (one per request thread)
Procs == {1, 2}

Idle ==
  [pc |-> "idle", batch |-> <<>>, ext |-> <<>>, existing |-> <<>>,
   accepted |-> <<>>, combined |-> <<>>, new_count |-> 0, total_count |-> 0,
   wbState |-> "absent", wbCols |-> <<>>, wbRows |-> <<>>]

NoCall ==
  [op |-> "none", batch |-> <<>>, ext |-> <<>>, raised |-> FALSE,
   new_count |-> 0, total_count |-> 0,
   beforeState |-> "absent", beforeCols |-> <<>>, beforeRows |-> <<>>,
   existing |-> <<>>, accepted |-> <<>>]

NoFn == [pc |-> "none", arg |-> <<>>, res |-> <<>>]

NoBuild == [pc |-> "none", complaint |-> <<>>, ext |-> <<>>, row |-> <<>>]

Init ==
  /\ fileState = "absent"
  /\ fileCols = <<>>
  /\ fileRows = <<>>
  /\ last = NoCall
  /\ nOps = 0
  /\ inv = [p \in Procs |-> Idle]
  /\ built = NoBuild
  /\ fn = NoFn

\* append_to_master_excel(complaints, source_file_type), run to completion
\* append_to_master_excel(complaints, source_file_type), new_rows being
\* the rows built from the complaints and raises telling whether building
\* them raised
append_to_master_excel(complaints, source_file_type, raises, new_rows) ==
  /\ nOps < MaxOps
  /\ Len(fileRows) <= MaxStore
  /\ nOps' = nOps + 1
  /\ LET existing_df == load_existing(fileState, fileCols, fileRows)
         filtered_rows == filter_rows(new_rows, existing_ids_of(existing_df))
         combined_df == combine(existing_df, filtered_rows)
         call == [op |-> "merge", batch |-> complaints,
                  ext |-> source_file_type, raised |-> raises,
                  new_count |-> 0, total_count |-> 0,
                  beforeState |-> fileState, beforeCols |-> fileCols,
                  beforeRows |-> fileRows,
                  existing |-> <<>>, accepted |-> <<>>]
     IN IF raises
        THEN /\ UNCHANGED <<fileState, fileCols, fileRows>>
             /\ last' = call
        ELSE /\ fileState' = "ok"
             /\ fileCols' = COLUMNS
             /\ fileRows' = safe_write_excel(combined_df)
             /\ last' = [call EXCEPT !.new_count = Len(filtered_rows),
                                     !.total_count = Len(combined_df),
                                     !.existing = existing_df,
                                     !.accepted = filtered_rows]

\* a call of append_to_master_excel on its own
AppendToMaster(complaints, source_file_type) ==
  /\ append_to_master_excel(complaints, source_file_type,
                            rows_raise(complaints),
                            build_rows(complaints, source_file_type))
  /\ UNCHANGED <<inv, built, fn>>

\* the workbook is damaged from outside: read_excel raises on it
CorruptStore ==
  /\ nOps < MaxOps
  /\ fileState = "ok"
  /\ nOps' = nOps + 1
  /\ UNCHANGED <<inv, built, fn>>
  /\ fileState' = "corrupt"
  /\ fileCols' = <<>>
  /\ fileRows' = <<>>
  /\ last' = [NoCall EXCEPT !.op = "corrupt", !.beforeState = fileState,
                            !.beforeCols = fileCols, !.beforeRows = fileRows]

Merge == \E b \in Batches : \E e \in MergeExts : AppendToMaster(b, e)

Next == Merge \/ CorruptStore

Spec == Init /\ [][Next]_vars

(* ---------------- interleaved merges on the same file ----------------- *)

\* the batches of the interleaved invocations
ConcBatches == { <<c_full>>, <<c_sparse>>, <<c_padded, c_sparse>> }

\* invocation p is called and runs up to and including the read of the
\* master file: rows built, existing_df loaded, new rows filtered and
\* combined (all in memory)
CLoad(p, complaints, source_file_type) ==
  /\ nOps < MaxOps
  /\ inv[p].pc \in {"idle", "done"}
  /\ ~rows_raise(complaints)
  /\ nOps' = nOps + 1
  /\ LET new_rows == build_rows(complaints, source_file_type)
         existing_df == load_existing(fileState, fileCols, fileRows)
         filtered_rows == filter_rows(new_rows, existing_ids_of(existing_df))
         combined_df == combine(existing_df, filtered_rows)
     IN inv' = [inv EXCEPT ![p] =
                  [Idle EXCEPT !.pc = "write", !.batch = complaints,
                               !.ext = source_file_type,
                               !.existing = existing_df,
                               !.accepted = filtered_rows,
                               !.combined = combined_df,
                               !.new_count = Len(filtered_rows),
                               !.total_count = Len(combined_df)]]
  /\ UNCHANGED <<fileState, fileCols, fileRows, last, built, fn>>

\* CWrite as it would be if the write re-read the file and appended the
\* accepted rows to what is there now
CWrite_reread(p) ==
  /\ inv[p].pc = "write"
  /\ fileState' = "ok"
  /\ fileCols' = COLUMNS
  /\ fileRows' = safe_write_excel(
                    combine(load_existing(fileState, fileCols, fileRows),
                            inv[p].accepted))
  /\ inv' = [inv EXCEPT ![p].pc = "reopen"]
  /\ UNCHANGED <<last, nOps, built, fn>>

\* safe_write_excel, df.to_excel(filepath): the file is replaced by the
\* invocation's combined rows
CWrite(p) ==
  /\ inv[p].pc = "write"
  /\ fileState' = "ok"
  /\ fileCols' = COLUMNS
  /\ fileRows' = safe_write_excel(inv[p].combined)
  /\ inv' = [inv EXCEPT ![p].pc = "reopen"]
  /\ UNCHANGED <<last, nOps, built, fn>>

\* safe_write_excel, wb = load_workbook(filepath): the file as it is now
\* is read back for formatting
CReopen(p) ==
  /\ inv[p].pc = "reopen"
  /\ inv' = [inv EXCEPT ![p].pc = "save", ![p].wbState = fileState,
                        ![p].wbCols = fileCols, ![p].wbRows = fileRows]
  /\ UNCHANGED <<fileState, fileCols, fileRows, last, nOps, built, fn>>

\* safe_write_excel, wb.save(filepath): the formatted workbook (same cell
\* values) replaces the file; the call returns (new_count, total_count)
CSave(p) ==
  /\ inv[p].pc = "save"
  /\ fileState' = inv[p].wbState
  /\ fileCols' = inv[p].wbCols
  /\ fileRows' = inv[p].wbRows
  /\ inv' = [inv EXCEPT ![p].pc = "done"]
  /\ UNCHANGED <<last, nOps, built, fn>>

CCall == \E p \in Procs : \E b \in ConcBatches : \E e \in MergeExts : CLoad(p, b, e)

CStep == \E p \in Procs : CWrite(p) \/ CReopen(p) \/ CSave(p)

NextConc == CCall \/ CStep

SpecConc == Init /\ [][NextConc]_vars

\* the interleaved invocations with a batch whose identifier read_excel
\* reads back as NaN
ConcIdBatches == { <<c_token>>, <<c_sparse>> }

CCallIds ==
  \E p \in Procs : \E b \in ConcIdBatches : \E e \in MergeExts : CLoad(p, b, e)

NextConcIds == CCallIds \/ CStep

SpecConcIds == Init /\ [][NextConcIds]_vars

(* ------------- viewer_app.py: save_to_master_excel -------------------- *)

\* columns of save_to_master_excel
columns ==
  <<"Complaint_ID", "Complaint_Date", "Incident_Date", "Category",
    "Sub_Category", "District", "State", "Amount_Lost", "Status",
    "Action_Taken_Remarks", "Source_File_Type">>

\* existing_df of save_to_master_excel: the workbook as read_excel
\* delivers it, a column the workbook lacks filled with 'Not Available',
\* cut to columns; no rows when the file is absent or cannot be read
viewer_existing(st, cols, rows) ==
  IF st # "ok" THEN <<>>
  ELSE [i \in 1..Len(rows) |->
          [c \in Range(columns) |->
             IF c \in Range(cols) THEN ReadCell(rows[i][c])
             ELSE VStr(NotAvailable)]]

\* the duplicate filter of save_to_master_excel: the complaints kept, in
\* order
RECURSIVE viewer_filter(_, _)
viewer_filter(complaints, existing_ids) ==
  IF complaints = <<>> THEN <<>>
  ELSE LET complaint == Head(complaints)
           complaint_id ==
             Strip(PyStr(Get(complaint, "Complaint_ID", VStr(<<>>))))
       IN IF complaint_id # <<>> /\ complaint_id # NotAvailable
             /\ complaint_id \notin existing_ids
          THEN <<complaint>> \o viewer_filter(Tail(complaints),
                                   existing_ids \cup {complaint_id})
          ELSE viewer_filter(Tail(complaints), existing_ids)

\* one cell of a row of pd.DataFrame(new_complaints) after the concat and
\* the "ensure all columns exist" loop: the value of the key; NaN where
\* the frame has the column but this complaint lacks the key; 'Not
\* Available' where no row of the combined frame has the column
viewer_new_cell(complaint, c, new_complaints, existing_df) ==
  IF c \in DOMAIN complaint THEN complaint[c]
  ELSE IF existing_df # <<>>
          \/ \E k \in 1..Len(new_complaints) : c \in DOMAIN new_complaints[k]
  THEN VNaN
  ELSE VStr(NotAvailable)

\* combined_df of save_to_master_excel, Complaint_ID as str
viewer_combine(existing_df, new_complaints) ==
  LET new_df ==
        [i \in 1..Len(new_complaints) |->
           [c \in Range(columns) |->
              viewer_new_cell(new_complaints[i], c, new_complaints,
                              existing_df)]]
      combined == existing_df \o new_df
  IN [i \in 1..Len(combined) |->
        [c \in Range(columns) |->
           IF c = "Complaint_ID" THEN VStr(PyStr(combined[i][c]))
           ELSE combined[i][c]]]

\* the cell to_excel writes for a value: NaN and None give an empty cell
viewer_written(v) == IF NotNa(v) THEN v ELSE VNone

\* _format_master_excel on one cell: Complaint_ID as text; Amount_Lost as
\* a number where float() of the text without commas succeeds, left as it
\* is otherwise
format_master_cell(c, cell) ==
  IF cell.t = "none" THEN cell
  ELSE IF c = "Complaint_ID" THEN VStr(PyStr(cell))
  ELSE IF c = "Amount_Lost"
  THEN LET num == ParseFloat(RemoveChars(PyStr(cell), {","}))
       IN IF num.ok THEN num.v ELSE cell
  ELSE cell

\* the data rows of the workbook save_to_master_excel leaves behind
viewer_write(combined_df) ==
  [i \in 1..Len(combined_df) |->
     [c \in Range(columns) |->
        format_master_cell(c, viewer_written(combined_df[i][c]))]]

t_C3 == <<"C","3">>
t_amount_pdf == <<"6","0",",","0","0","0",".","0","0">>
t_PDF == <<"P","D","F">>
t_remark == <<"F","I","R">>

\* complaints as the viewer's /save route receives them: a record of
\* extract_from_pdf with an amount found, one with no amount found, and a
\* record of the request body that carries the identifier only
v_pdf ==
  [Complaint_ID |-> VStr(t_A1), Complaint_Date |-> VStr(t_date_10),
   Incident_Date |-> VStr(t_date_01), Category |-> VStr(t_Fraud),
   Sub_Category |-> VStr(NotAvailable), District |-> VStr(t_Pune),
   State |-> VStr(t_Goa), Amount_Lost |-> VStr(t_amount_pdf),
   Status |-> VStr(s_Pending), Action_Taken_Remarks |-> VStr(t_remark),
   Source_File_Type |-> VStr(t_PDF)]
v_no_amount ==
  [v_pdf EXCEPT !.Complaint_ID = VStr(t_C3),
                !.Amount_Lost = VStr(NotAvailable)]
v_id_only == [Complaint_ID |-> VStr(t_B2)]

ViewerBatches ==
  { <<v_pdf>>, <<v_no_amount>>, <<v_id_only>>, <<v_id_only, v_pdf>>,
    <<v_pdf, v_pdf>> }

\* save_to_master_excel(complaints), run to completion
SaveToMaster(complaints) ==
  /\ nOps < MaxOps
  /\ Len(fileRows) <= MaxStore
  /\ nOps' = nOps + 1
  /\ UNCHANGED <<inv, built, fn>>
  /\ LET existing_df == viewer_existing(fileState, fileCols, fileRows)
         existing_ids ==
           {Strip(PyStr(existing_df[i]["Complaint_ID"])) :
              i \in 1..Len(existing_df)}
         new_complaints == viewer_filter(complaints, existing_ids)
         combined_df == viewer_combine(existing_df, new_complaints)
     IN /\ fileState' = "ok"
        /\ fileCols' = columns
        /\ fileRows' = viewer_write(combined_df)
        /\ last' = [NoCall EXCEPT !.op = "save", !.batch = complaints,
                                  !.new_count = Len(new_complaints),
                                  !.total_count = Len(combined_df),
                                  !.beforeState = fileState,
                                  !.beforeCols = fileCols,
                                  !.beforeRows = fileRows,
                                  !.accepted = new_complaints]

Save == \E b \in ViewerBatches : SaveToMaster(b)

NextViewer == Merge \/ Save

\* the two applications writing the same output/ncrp_master.xlsx
SpecViewer == Init /\ [][NextViewer]_vars

(* ------------- build_row_from_complaint on its own -------------------- *)

\* the keys build_row_from_complaint reads
RowKeys ==
  {"Complaint_ID", "Complaint_Date", "Incident_Date", "Category",
   "Sub_Category", "District", "State", "Amount_Lost", "Status",
   "Transaction_Count", "Data_Quality_Score", "Investigation_Ready",
   "Reporting_Delay_Days", "Reporting_Delay_Status", "Transaction_Pattern"}

\* an enriched record with every key build_row_from_complaint reads, each
\* with a value that is not the default, and a key it does not know
e_all ==
  [Complaint_ID |-> VStr(t_A1), Complaint_Date |-> VStr(t_date_10),
   Incident_Date |-> VStr(t_date_01), Category |-> VStr(t_Fraud),
   Sub_Category |-> VStr(t_SBI), District |-> VStr(t_Pune),
   State |-> VStr(t_Goa), Amount_Lost |-> VFlt(6000000),
   Status |-> VStr(t_remark), Transaction_Count |-> VInt(2),
   Data_Quality_Score |-> VInt(100), Investigation_Ready |-> VStr(s_YES),
   Reporting_Delay_Days |-> VInt(9), Reporting_Delay_Status |-> VStr(s_DELAYED),
   Transaction_Pattern |-> VStr(s_SINGLE_LARGE),
   Bank_Platform_Info |-> VStr(t_SBI)]

\* a record whose Transaction_Count is a text int() rejects
e_bad_count == [Complaint_ID |-> VStr(t_A1), Transaction_Count |-> VStr(t_Fraud)]

\* the records build_row_from_complaint is applied to: e_all cut to every
\* subset of its keys, the enriched sample complaints, and e_bad_count
BuildInputs ==
  {[k \in K |-> e_all[k]] : K \in SUBSET (DOMAIN e_all)}
    \cup {enhance(c) : c \in Complaints} \cup {e_bad_count}

InitBuild ==
  /\ fileState = "absent"
  /\ fileCols = <<>>
  /\ fileRows = <<>>
  /\ last = NoCall
  /\ nOps = 0
  /\ inv = [p \in Procs |-> Idle]
  /\ fn = NoFn
  /\ \E complaint \in BuildInputs :
       built = [NoBuild EXCEPT !.pc = "call", !.complaint = complaint]

\* row = build_row_from_complaint(complaint, source_file_type); the call
\* raises where an int() of the function raises
BuildRow(source_file_type) ==
  /\ built.pc = "call"
  /\ built' =
       IF build_row_raises(built.complaint)
       THEN [built EXCEPT !.pc = "raised", !.ext = source_file_type]
       ELSE [built EXCEPT !.pc = "built", !.ext = source_file_type,
                          !.row = build_row_from_complaint(built.complaint,
                                                           source_file_type)]
  /\ UNCHANGED <<fileState, fileCols, fileRows, last, nOps, inv, fn>>

NextBuild == \E e \in MergeExts : BuildRow(e)

SpecBuild == InitBuild /\ [][NextBuild]_vars

(* --------------- processors/csv_processor.py: parse_amount ------------ *)

\* re.sub(r'[₹,Rs\.\s]', '', amount_str): no IGNORECASE here
ParseAmountJunk == {"₹", ",", "R", "s", "."} \cup WS

\* parse_amount(amount_value)
parse_amount(amount_value) ==
  IF ~NotNa(amount_value) THEN VFlt(0)
  ELSE LET amount_str == RemoveChars(Strip(PyStr(amount_value)), ParseAmountJunk)
           p == ParseFloat(amount_str)
       IN IF p.ok THEN p.v ELSE VFlt(0)

\* parse_date(date_value) for the cells the model enumerates: an empty
\* cell or text gives "", a YYYY-MM-DD text of a calendar day comes back
\* as it is, a text that is no date gives "".  Dates written in other
\* formats are not among the cells.
parse_date(date_value) ==
  IF ~NotNa(date_value) \/ date_value = VStr(<<>>) THEN <<>>
  ELSE LET date_str == Strip(PyStr(date_value))
       IN IF date_str = <<>> THEN <<>>
          ELSE IF ToDatetime(date_str).ok THEN date_str
          ELSE <<>>

\* re.split(r'[,;|\n]+', trans_str): the pieces between separators (the
\* empty pieces of a run of separators are dropped by the caller's filter)
RECURSIVE SplitOn(_, _, _)
SplitOn(text, seps, piece) ==
  IF text = <<>> THEN <<piece>>
  ELSE IF Head(text) \in seps
       THEN <<piece>> \o SplitOn(Tail(text), seps, <<>>)
       ELSE SplitOn(Tail(text), seps, Append(piece, Head(text)))

\* [t.strip() for t in transactions if len(t.strip()) >= min_len]
RECURSIVE StripAndFilter(_, _)
StripAndFilter(pieces, min_len) ==
  IF pieces = <<>> THEN <<>>
  ELSE (IF Len(Strip(Head(pieces))) >= min_len
        THEN <<Strip(Head(pieces))>> ELSE <<>>)
       \o StripAndFilter(Tail(pieces), min_len)

\* extract_transactions keeping only pieces longer than 8 characters
extract_transactions_over_8(transaction_value) ==
  IF ~NotNa(transaction_value) THEN <<>>
  ELSE StripAndFilter(
         SplitOn(Strip(PyStr(transaction_value)), {",", ";", "|", "\n"}, <<>>),
         9)

\* extract_transactions(transaction_value)
extract_transactions(transaction_value) ==
  IF ~NotNa(transaction_value) THEN <<>>
  ELSE StripAndFilter(
         SplitOn(Strip(PyStr(transaction_value)), {",", ";", "|", "\n"}, <<>>),
         8)

\* a list of texts
VList(items) == [t |-> "list", s |-> items, n |-> 0]

\* str(row.get(key, '')).strip() if pd.notna(row.get(key)) else default
CsvText(row, key, default) ==
  IF key \in DOMAIN row /\ NotNa(row[key]) THEN Strip(PyStr(row[key]))
  ELSE default

t_CSV_ == <<"C","S","V","_">>

\* one iteration of the row loop of process_csv: the complaint built from
\* the row with index idx; now is datetime.now(), as the stamp
\* %Y%m%d%H%M%S and the date %Y-%m-%d
process_csv_row(row, idx, now) ==
  LET transactions ==
        extract_transactions(Get(row, "Transaction_IDs", VStr(<<>>)))
      complaint_id == normalize_complaint_id(VStr(CsvText(row, "Complaint_ID", <<>>)))
      parsed_complaint_date == parse_date(Get(row, "Complaint_Date", VStr(<<>>)))
      parsed_incident_date == parse_date(Get(row, "Incident_Date", VStr(<<>>)))
      complaint_date ==
        IF parsed_complaint_date = <<>> THEN now.date
        ELSE parsed_complaint_date
  IN [Complaint_ID |->
        VStr(IF complaint_id = NotAvailable
             THEN t_CSV_ \o now.stamp \o <<"_">> \o IntToStr(idx)
             ELSE complaint_id),
      Complaint_Date |-> VStr(complaint_date),
      Incident_Date |->
        VStr(IF parsed_incident_date = <<>> THEN complaint_date
             ELSE parsed_incident_date),
      Category |-> VStr(normalize_string(VStr(CsvText(row, "Category", <<>>)))),
      Sub_Category |->
        VStr(normalize_string(VStr(CsvText(row, "Sub_Category", <<>>)))),
      District |-> VStr(normalize_string(VStr(CsvText(row, "District", <<>>)))),
      State |-> VStr(normalize_string(VStr(CsvText(row, "State", <<>>)))),
      Amount_Lost |->
        normalize_amount(parse_amount(Get(row, "Amount_Lost", VInt(0)))),
      Status |-> VStr(normalize_string(VStr(CsvText(row, "Status", s_Pending)))),
      Transaction_Count |-> VInt(Len(transactions)),
      Transaction_IDs |-> VList(transactions),
      Bank_Platform_Info |->
        VStr(normalize_string(VStr(CsvText(row, "Bank_Platform_Info", <<>>))))]

(* --------------------- the normalisers on their own ------------------- *)

\* the characters of the generated amount texts: digits, comma, decimal
\* point, blank, the currency marks and the minus sign
AmountChars == {"0", "1", "5", ",", ".", " ", "₹", "R", "s", "-"}

AmountTexts == UNION {[1..n -> AmountChars] : n \in 1..MaxLen}

\* the null tokens in several cases, blanks, the sentinel, plain texts
TokenTexts ==
  { <<>>, <<" ">>, <<" ", "\t">>,
    s_nan, <<"N","a","N">>, <<"N","A","N">>, s_none, s_None,
    <<"N","O","N","E">>, s_null, <<"N","u","l","l">>, s_n_a,
    <<"N","/","A">>, s_na, t_NA, <<" ","N","A"," ">>,
    NotAvailable, t_A1, t_A1_padded, t_Pune, t_NA_token,
    <<"-","5","0","0">>, <<"+","5">>, t_amount, t_amount_pdf,
    <<"-","1",",","5","0","0",".","5","0">>,
    <<"\t","6","0",",","0","0","0","\n">> }

\* exponential-notation texts, as a spreadsheet renders long numbers
ExponentTexts ==
  { <<"1",".","2","3","e","+","1","5">>, <<"1","E","+","1","1">>,
    <<"1","e","+","1","0">>, <<"1","e","+","5">>, <<"5","e","-","3">>,
    <<"1",".","2","3","4","5","6","7","8","9","0","1","2","e","+","1","1">>,
    <<"1",".","5","e","+","3","x">> }

NumberValues ==
  {VInt(0), VInt(5), VInt(0 - 5), VInt(1500), VFlt(0), VFlt(150050),
   VFlt(0 - 250), VNaN}

\* the values normalize_amount and parse_amount are applied to
AmountInputs ==
  {VNone} \cup NumberValues \cup {VStr(t) : t \in AmountTexts \cup TokenTexts}

\* the values normalize_string and normalize_complaint_id are applied to
TextInputs == AmountInputs \cup {VStr(t) : t \in ExponentTexts}

InitNorm ==
  /\ fileState = "absent"
  /\ fileCols = <<>>
  /\ fileRows = <<>>
  /\ last = NoCall
  /\ nOps = 0
  /\ inv = [p \in Procs |-> Idle]
  /\ built = NoBuild
  /\ \/ \E v \in TextInputs : fn = [NoFn EXCEPT !.pc = "text_call", !.arg = v]
     \/ \E v \in AmountInputs :
          fn = [NoFn EXCEPT !.pc = "amount_call", !.arg = v]

\* normalize_string(value) and normalize_complaint_id(value)
NormalizeText ==
  /\ fn.pc = "text_call"
  /\ fn' = [fn EXCEPT !.pc = "text_done",
                      !.res = [string |-> normalize_string(fn.arg),
                               complaint_id |-> normalize_complaint_id(fn.arg)]]
  /\ UNCHANGED <<fileState, fileCols, fileRows, last, nOps, inv, built>>

\* normalize_amount(value) and parse_amount(amount_value)
NormalizeAmount ==
  /\ fn.pc = "amount_call"
  /\ fn' = [fn EXCEPT !.pc = "amount_done",
                      !.res = [amount |-> normalize_amount(fn.arg),
                               parsed |-> parse_amount(fn.arg)]]
  /\ UNCHANGED <<fileState, fileCols, fileRows, last, nOps, inv, built>>

NextNorm == NormalizeText \/ NormalizeAmount

SpecNorm == InitNorm /\ [][NextNorm]_vars

(* ------------------- the enrichment on its own ------------------------ *)

t_date_08 == <<"2","0","2","4","-","0","1","-","0","8">>
t_date_mar == <<"2","0","2","4","-","0","3","-","0","1">>
t_date_feb == <<"2","0","2","4","-","0","2","-","2","8">>
t_date_dec == <<"2","0","2","3","-","1","2","-","3","1">>

\* marks a key the record does not have
Absent == [t |-> "absent", s |-> <<>>, n |-> 0]

\* the fields the enrichment reads, each with the values a normalised
\* record can have there; every combination is a record
EnrichFields ==
  [Complaint_ID : {Absent, VStr(t_A1), VStr(NotAvailable)},
   Complaint_Date : {Absent, VStr(NotAvailable), VStr(t_date_10),
                     VStr(t_date_08), VStr(t_date_mar), VStr(t_date_dec)},
   Incident_Date : {Absent, VStr(<<>>), VStr(t_date_01), VStr(t_date_feb),
                    VStr(t_date_10)},
   District : {Absent, VStr(t_Pune), VStr(NotAvailable)},
   State : {VStr(t_Goa), VStr(NotAvailable)},
   Amount_Lost : {Absent, VFlt(0), VFlt(1500000), VFlt(3000000),
                  VFlt(5000000), VFlt(6000000), VFlt(0 - 50000)},
   Transaction_Count : {Absent, VInt(0), VInt(1), VInt(3)},
   Bank_Platform_Info : {Absent, VStr(t_SBI), VStr(NotAvailable)}]

\* the record with the keys of f whose value is not Absent
WithoutAbsent(f) == [k \in {x \in DOMAIN f : f[x] # Absent} |-> f[k]]

InitEnrich ==
  /\ fileState = "absent"
  /\ fileCols = <<>>
  /\ fileRows = <<>>
  /\ last = NoCall
  /\ nOps = 0
  /\ inv = [p \in Procs |-> Idle]
  /\ built = NoBuild
  /\ \E f \in EnrichFields :
       fn = [NoFn EXCEPT !.pc = "enrich_call", !.arg = WithoutAbsent(f)]

\* apply_intelligence_features([complaint])[0]
Enrich ==
  /\ fn.pc = "enrich_call"
  /\ fn' = [fn EXCEPT !.pc = "enriched",
                      !.res = apply_intelligence_features(<<fn.arg>>)[1]]
  /\ UNCHANGED <<fileState, fileCols, fileRows, last, nOps, inv, built>>

NextEnrich == Enrich

SpecEnrich == InitEnrich /\ [][NextEnrich]_vars

(* ------------- tabular extraction followed by enrichment -------------- *)

t_id_10 == <<"1","2","3","4","5","6","7","8","9","0">>
t_60000 == <<"6","0",",","0","0","0">>
t_utr == <<"U","T","R","1","2","3","4","5">>
t_utr_three ==
  <<"U","T","R","1","2","3","4","5",";"," ","U","T","R","6","7","8","9",
    "0","1","2",",","A","B">>

t_utr_twice ==
  <<"U","T","R","1","2","3","4","5",",","U","T","R","1","2","3","4","5">>

\* the cells of a row of the frame read_csv delivers, by normalised
\* column name: Absent for a column the file does not have, NaN for an
\* empty cell
CsvFields ==
  [Complaint_ID : {Absent, VNaN, VInt(1234567890), VStr(t_A1)},
   Complaint_Date : {Absent, VNaN, VStr(t_date_10), VStr(t_Fraud)},
   Incident_Date : {Absent, VNaN, VStr(t_date_01)},
   District : {Absent, VStr(t_Pune)},
   State : {Absent, VStr(t_Goa)},
   Amount_Lost : {Absent, VStr(t_60000), VInt(15000), VFlt(150050)},
   Transaction_Count : {Absent, VInt(1)},
   Transaction_IDs : {Absent, VNaN, VStr(t_utr), VStr(t_utr_three),
                      VStr(t_utr_twice)},
   Bank_Platform_Info : {Absent, VStr(t_SBI)}]

\* datetime.now() at the time the row is processed
Nows ==
  { [stamp |-> <<"2","0","2","4","0","1","1","5","0","9","3","0","0","0">>,
     date |-> <<"2","0","2","4","-","0","1","-","1","5">>],
    [stamp |-> <<"2","0","2","4","0","3","0","1","0","0","0","0","0","0">>,
     date |-> t_date_mar] }

InitCsv ==
  /\ fileState = "absent"
  /\ fileCols = <<>>
  /\ fileRows = <<>>
  /\ last = NoCall
  /\ nOps = 0
  /\ inv = [p \in Procs |-> Idle]
  /\ built = NoBuild
  /\ \E f \in CsvFields :
       fn = [NoFn EXCEPT !.pc = "csv_call", !.arg = WithoutAbsent(f)]

\* process_csv on a file with this one row, then
\* apply_intelligence_features on its result
ProcessCsv(now) ==
  /\ fn.pc = "csv_call"
  /\ LET complaints == <<process_csv_row(fn.arg, 0, now)>>
     IN fn' = [fn EXCEPT !.pc = "csv_done",
                         !.res = [complaint |-> complaints[1],
                                  enhanced |->
                                    apply_intelligence_features(complaints)[1]]]
  /\ UNCHANGED <<fileState, fileCols, fileRows, last, nOps, inv, built>>

NextCsv == \E now \in Nows : ProcessCsv(now)

SpecCsv == InitCsv /\ [][NextCsv]_vars

(* ------------------- processors/pdf_processor.py ---------------------- *)

\* A regular expression is a sequence of elements, matched as re matches
\* them (greedy, with backtracking, re.IGNORECASE): a literal text, or a
\* run of min..max characters of a set (max < 0: any number), which may be
\* part of the captured group.
Lit(s) == [k |-> "lit", s |-> s, set |-> {}, min |-> 0, max |-> 0, cap |-> FALSE]
Run(set, min, max) ==
  [k |-> "run", s |-> <<>>, set |-> set, min |-> min, max |-> max, cap |-> FALSE]
Cap(set, min, max) ==
  [k |-> "run", s |-> <<>>, set |-> set, min |-> min, max |-> max, cap |-> TRUE]

NoMatch == [ok |-> FALSE, cap |-> <<>>, end |-> 0]

\* the character classes of the patterns (letters in both cases under
\* re.IGNORECASE)
DigitSet == Range(Digits)
LetterSet == Range(UpperAZ) \cup Range(LowerAZ)

\* \s* , \s+ , \n? and \n
Ws0 == Run(WS, 0, 0 - 1)
Ws1 == Run(WS, 1, 0 - 1)
NlOpt == Run({"\n"}, 0, 1)
Nl == Run({"\n"}, 1, 1)

RECURSIVE RunLength(_, _, _, _)
RunLength(text, pos, set, max) ==
  IF pos > Len(text) \/ max = 0 THEN 0
  ELSE IF text[pos] \notin set THEN 0
  ELSE 1 + RunLength(text, pos + 1, set, max - 1)

LitAt(text, pos, s) ==
  /\ pos + Len(s) - 1 <= Len(text)
  /\ \A i \in 1..Len(s) : LowerChar(text[pos + i - 1]) = LowerChar(s[i])

\* the match of the elements i.. of pat at position pos of text, cap being
\* the group captured so far
RECURSIVE MatchAt(_, _, _, _, _)
RECURSIVE MatchRun(_, _, _, _, _, _)
MatchAt(text, pos, pat, i, cap) ==
  IF i > Len(pat) THEN [ok |-> TRUE, cap |-> cap, end |-> pos]
  ELSE IF pat[i].k = "lit"
  THEN IF LitAt(text, pos, pat[i].s)
       THEN MatchAt(text, pos + Len(pat[i].s), pat, i + 1, cap)
       ELSE NoMatch
  ELSE MatchRun(text, pos, pat, i, cap,
                RunLength(text, pos, pat[i].set, pat[i].max))

\* a run tried with k characters, then with fewer
MatchRun(text, pos, pat, i, cap, k) ==
  IF k < pat[i].min THEN NoMatch
  ELSE LET r == MatchAt(text, pos + k, pat, i + 1,
                        IF pat[i].cap
                        THEN cap \o SubSeq(text, pos, pos + k - 1)
                        ELSE cap)
       IN IF r.ok THEN r ELSE MatchRun(text, pos, pat, i, cap, k - 1)

\* re.search(pattern, text, re.IGNORECASE) from position pos on: the
\* match at the first position that has one
Search(text, pat, pos) ==
  LET found == {p \in pos..(Len(text) + 1) : MatchAt(text, p, pat, 1, <<>>).ok}
      first == CHOOSE p \in found : \A q \in found : p <= q
  IN IF found = {} THEN NoMatch ELSE MatchAt(text, first, pat, 1, <<>>)

\* re.findall(pattern, text, re.IGNORECASE): the groups of the matches,
\* left to right, none overlapping
RECURSIVE FindAll(_, _, _)
FindAll(text, pat, pos) ==
  LET r == Search(text, pat, pos)
  IN IF ~r.ok THEN <<>>
     ELSE <<r.cap>> \o FindAll(text, pat, IF r.end > pos THEN r.end ELSE pos + 1)

\* extract_text_from_pdf(filepath) for a file that pdfplumber opens: the
\* text of the pages that have text, each followed by a newline
RECURSIVE extract_text_from_pdf(_)
extract_text_from_pdf(pages) ==
  IF pages = <<>> THEN <<>>
  ELSE (IF Head(pages) # <<>> THEN Head(pages) \o <<"\n">> ELSE <<>>)
       \o extract_text_from_pdf(Tail(pages))

\* normalize_text(text): \r becomes \n, runs of \n become one \n
NotBeforeNewline(e) == ~(e.c = "\n" /\ e.next = "\n")

normalize_text(text) ==
  LET lines == [i \in 1..Len(text) |-> IF text[i] = "\r" THEN "\n" ELSE text[i]]
      pairs == [i \in 1..Len(lines) |->
                  [c |-> lines[i],
                   next |-> IF i < Len(lines) THEN lines[i + 1] ELSE ""]]
      kept == SelectSeq(pairs, NotBeforeNewline)
  IN [i \in 1..Len(kept) |-> kept[i].c]

\* extract_section(text, start_marker, end_marker)
extract_section(text, start_marker, end_marker) ==
  LET start_match == Search(text, <<Lit(start_marker)>>, 1)
      after == SubSeq(text, start_match.end, Len(text))
      end_match == Search(after, <<Lit(end_marker)>>, 1)
  IN IF ~start_match.ok THEN <<>>
     ELSE IF ~end_match.ok THEN after
     ELSE SubSeq(after, 1, end_match.end - Len(end_marker) - 1)

\* s.split('\n')[0].strip()
FirstLine(s) ==
  LET i == RunLength(s, 1, {c \in Range(s) : c # "\n"}, 0 - 1)
  IN Strip(SubSeq(s, 1, i))

\* extract_field(pattern, text): the stripped first line of group 1 of the
\* first match; <<>> stands for None
extract_field(pattern, text) ==
  IF text = <<>> \/ pattern = <<>> THEN <<>>
  ELSE LET match == Search(text, pattern, 1)
       IN IF match.ok THEN FirstLine(Strip(match.cap)) ELSE <<>>

\* parse_ncrp_date(date_str): DD/MM/YYYY to YYYY-MM-DD, "Not Available"
\* where strptime raises
parse_ncrp_date(date_str) ==
  LET s == Strip(date_str)
      shaped == /\ Len(s) = 10 /\ s[3] = "/" /\ s[6] = "/"
                /\ AllDigits(SubSeq(s, 1, 2)) /\ AllDigits(SubSeq(s, 4, 5))
                /\ AllDigits(SubSeq(s, 7, 10))
      d == DigitsToNat(SubSeq(s, 1, 2))
      m == DigitsToNat(SubSeq(s, 4, 5))
      y == DigitsToNat(SubSeq(s, 7, 10))
  IN IF s = <<>> THEN NotAvailable
     ELSE IF shaped /\ y >= 1 /\ m \in 1..12 /\ d >= 1 /\ d <= DaysInMonth(y, m)
     THEN SubSeq(s, 7, 10) \o <<"-">> \o SubSeq(s, 4, 5) \o <<"-">> \o SubSeq(s, 1, 2)
     ELSE NotAvailable

\* extract_complaint_id(text)
extract_complaint_id(text) ==
  LET colon == extract_field(
                 <<Lit(<<"A","c","k","n","o","w","l","e","d","g","e","m","e","n","t">>), Ws0,
                   Lit(<<"N","u","m","b","e","r">>), Ws0, Lit(<<":">>), Ws0, NlOpt, Ws0,
                   Cap(DigitSet, 10, 0 - 1)>>, text)
      newline == extract_field(
                   <<Lit(<<"A","c","k","n","o","w","l","e","d","g","e","m","e","n","t">>), Ws0,
                     Lit(<<"N","u","m","b","e","r">>), Ws0, Nl, Ws0,
                     Cap(DigitSet, 10, 0 - 1)>>, text)
      last_resort == extract_field(
                       <<Lit(<<"C","o","m","p","l","a","i","n","t">>), Ws0, Lit(<<"I","D">>), Ws0,
                         Lit(<<":">>), Ws0, NlOpt, Ws0,
                         Cap(DigitSet, 10, 0 - 1)>>, text)
  IN IF colon # <<>> THEN colon
     ELSE IF newline # <<>> THEN newline
     ELSE last_resort

\* str.title() of a text of letters and blanks
Title(s) ==
  [i \in 1..Len(s) |->
     IF i = 1 \/ s[i - 1] \notin LetterSet THEN UpperChar(s[i])
     ELSE LowerChar(s[i])]

\* extract_category(text)
extract_category(text) ==
  Title(FirstLine(extract_field(
    <<Lit(<<"C","a","t","e","g","o","r","y">>), Ws1, Lit(<<"o","f">>), Ws1,
      Lit(<<"c","o","m","p","l","a","i","n","t">>), Ws0, Nl, Ws0,
      Cap(LetterSet \cup {" "}, 1, 0 - 1)>>, text)))

\* extract_sub_category(text)
extract_sub_category(text) ==
  Title(FirstLine(extract_field(
    <<Lit(<<"S","u","b">>), Ws1, Lit(<<"C","a","t","e","g","o","r","y">>), Ws1,
      Lit(<<"o","f">>), Ws1, Lit(<<"C","o","m","p","l","a","i","n","t">>), Ws0, Nl, Ws0,
      Cap(LetterSet \cup {" "}, 1, 0 - 1)>>, text)))

\* ([\d]{2}/[\d]{2}/[\d]{4})
DatePattern ==
  <<Cap(DigitSet, 2, 2), Cap({"/"}, 1, 1), Cap(DigitSet, 2, 2),
    Cap({"/"}, 1, 1), Cap(DigitSet, 4, 4)>>

\* extract_incident_date(text)
extract_incident_date(text) ==
  LET with_time == extract_field(
                     <<Lit(<<"I","n","c","i","d","e","n","t">>), Ws1, Lit(<<"D","a","t","e","/","T","i","m","e">>), Ws0, Nl, Ws0>>
                       \o DatePattern, text)
      without_time == extract_field(
                        <<Lit(<<"I","n","c","i","d","e","n","t">>), Ws1, Lit(<<"D","a","t","e">>), Ws0, Nl, Ws0>>
                          \o DatePattern, text)
  IN IF with_time # <<>> THEN parse_ncrp_date(with_time)
     ELSE IF without_time # <<>> THEN parse_ncrp_date(without_time)
     ELSE <<>>

\* extract_complaint_date(text)
extract_complaint_date(text) ==
  LET result == extract_field(
                  <<Lit(<<"C","o","m","p","l","a","i","n","t">>), Ws1, Lit(<<"D","a","t","e">>), Ws0, Nl, Ws0>>
                    \o DatePattern, text)
  IN IF result # <<>> THEN parse_ncrp_date(result) ELSE <<>>

\* Total\s+Fraudulent\s+Amount\s+reported\s+by\s+complainant\s*:\s*
AmountLabel ==
  <<Lit(<<"T","o","t","a","l">>), Ws1, Lit(<<"F","r","a","u","d","u","l","e","n","t">>), Ws1, Lit(<<"A","m","o","u","n","t">>), Ws1,
    Lit(<<"r","e","p","o","r","t","e","d">>), Ws1, Lit(<<"b","y">>), Ws1, Lit(<<"c","o","m","p","l","a","i","n","a","n","t">>),
    Ws0, Lit(<<":">>), Ws0>>

\* the amount of a parsed text: the number when it is positive, 0.0 when
\* it is not; ok is FALSE where there is no text or float raises
AmountValue(result, p) ==
  [ok |-> result # <<>> /\ p.ok,
   v |-> IF p.ok /\ p.v.t = "float" /\ p.v.n > 0 THEN p.v ELSE VFlt(0)]

\* amount_str = result.replace(',', ''); float(amount_str)
AmountOf(result) == AmountValue(result, ParseFloat(RemoveChars(result, {","})))

\* the ASCII characters of the class before the amount in the fallback
\* pattern (R, s, the point, white space; both cases under re.IGNORECASE);
\* its three other characters occur in no report
CurrencyPrefix == {"R", "r", "S", "s", "."} \cup WS

\* the first of the two amounts that was parsed, else 0.0
FirstAmount(first, fallback) ==
  IF first.ok THEN first.v
  ELSE IF fallback.ok THEN fallback.v
  ELSE VFlt(0)

\* extract_amount(text)
extract_amount(text) ==
  FirstAmount(
    AmountOf(extract_field(
      AmountLabel \o <<Cap(DigitSet \cup {",", "."}, 1, 0 - 1)>>, text)),
    AmountOf(extract_field(
      AmountLabel \o <<Run(CurrencyPrefix, 0, 0 - 1),
                       Cap(DigitSet \cup {",", "."}, 1, 0 - 1)>>, text)))

\* result.split(word)[0].strip() for each stop word found in result
RECURSIVE CutAtWords(_, _)
CutAtWords(result, stop_words) ==
  IF stop_words = <<>> THEN result
  ELSE LET word == Head(stop_words)
           at == {i \in 1..(Len(result) - Len(word) + 1) :
                    SubSeq(result, i, i + Len(word) - 1) = word}
           first == CHOOSE i \in at : \A j \in at : i <= j
       IN CutAtWords(IF at = {} THEN result
                     ELSE Strip(SubSeq(result, 1, first - 1)),
                     Tail(stop_words))

\* extract_district(text)
extract_district(text) ==
  CutAtWords(
    FirstLine(extract_field(
      <<Lit(<<"D","i","s","t","r","i","c","t">>), Ws0, Nl, Ws0, Cap(LetterSet \cup {" "}, 1, 0 - 1)>>,
      text)),
    <<<<"S","t","a","t","e">>, <<"A","m","o","u","n","t">>, <<"C","o","m","p","l","a","i","n","t">>, <<"C","a","t","e","g","o","r","y">>, <<"S","u","b">> >>)

\* extract_state(text)
extract_state(text) ==
  CutAtWords(
    FirstLine(extract_field(
      <<Lit(<<"S","t","a","t","e">>), Ws0, Nl, Ws0, Cap(LetterSet \cup {" "}, 1, 0 - 1)>>,
      text)),
    <<<<"D","i","s","t","r","i","c","t">>, <<"A","m","o","u","n","t">>, <<"C","o","m","p","l","a","i","n","t">>, <<"C","a","t","e","g","o","r","y">>, <<"S","u","b">> >>)

\* ([A-Z0-9]{8,}) under re.IGNORECASE
TransactionId == Cap(DigitSet \cup LetterSet, 8, 0 - 1)

\* [t for t in xs if len(t.strip()) >= 8], stripped
RECURSIVE AtLeast8(_)
AtLeast8(xs) ==
  IF xs = <<>> THEN <<>>
  ELSE (IF Len(Strip(Head(xs))) >= 8 THEN <<Strip(Head(xs))>> ELSE <<>>)
       \o AtLeast8(Tail(xs))

\* the transactions list of extract_transaction_ids before set(): the
\* matches of the three label patterns, pattern after pattern
transaction_matches(text) ==
  AtLeast8(
    FindAll(text, <<Lit(<<"U","T","R">>), Ws0, Lit(<<"N","u","m","b","e","r">>), Ws0,
                    Lit(<<":">>), Ws0, NlOpt, Ws0, TransactionId>>, 1)
    \o FindAll(text, <<Lit(<<"T","r","a","n","s","a","c","t","i","o","n">>), Ws0, Lit(<<"I","D">>), Ws0,
                       Lit(<<":">>), Ws0, NlOpt, Ws0, TransactionId>>, 1)
    \o FindAll(text, <<Lit(<<"T","r","a","n","s","a","c","t","i","o","n">>), Ws0, Lit(<<"R","e","f","e","r","e","n","c","e">>), Ws0,
                       Lit(<<":">>), Ws0, NlOpt, Ws0, TransactionId>>, 1))

\* list(set(xs)): the lists that hold each element of xs once; the order
\* is that of the set's hash table and differs from process to process
ListOfSet(xs) ==
  {l \in [1..Cardinality(Range(xs)) -> Range(xs)] :
     \A i, j \in DOMAIN l : i # j => l[i] # l[j]}

\* extract_transaction_ids(text): the lists it can return
extract_transaction_ids(text) == ListOfSet(transaction_matches(text))

\* the vocabulary of extract_bank_platform_info
banks ==
  <<<<"S","B","I">>, <<"H","D","F","C">>, <<"I","C","I","C","I">>, <<"A","x","i","s">>, <<"K","o","t","a","k">>, <<"P","N","B">>, <<"B","O","I">>,
    <<"C","a","n","a","r","a">>, <<"P","a","y","t","m">>, <<"P","h","o","n","e","P","e">>, <<"G","P","a","y">>, <<"G","o","o","g","l","e"," ","P","a","y">>, <<"U","P","I">>,
    <<"N","E","F","T">>, <<"R","T","G","S">>, <<"I","M","P","S">>, <<"B","a","n","k"," ","o","f"," ","I","n","d","i","a">>, <<"S","t","a","t","e"," ","B","a","n","k">>,
    <<"P","u","n","j","a","b"," ","N","a","t","i","o","n","a","l"," ","B",
    "a","n","k">>>>

\* ", ".join(found)
RECURSIVE JoinFound(_, _, _)
JoinFound(text_upper, i, acc) ==
  IF i > Len(banks) THEN acc
  ELSE JoinFound(text_upper, i + 1,
                 IF Contains(text_upper, Upper(banks[i]))
                 THEN (IF acc = <<>> THEN banks[i]
                       ELSE acc \o <<",", " ">> \o banks[i])
                 ELSE acc)

\* extract_bank_platform_info(text)
extract_bank_platform_info(text) == JoinFound(Upper(text), 1, <<>>)

\* extract_status(text)
extract_status(text) ==
  LET result == extract_field(
                  <<Lit(<<"S","t","a","t","u","s">>), Ws0, Lit(<<":">>), Ws0, NlOpt, Ws0,
                    Cap(LetterSet \cup {" "}, 1, 0 - 1)>>, text)
  IN IF result # <<>> THEN Title(FirstLine(result)) ELSE s_Pending

\* normalize_string(x) if x else default
NormalizedOr(x, default) ==
  IF x # <<>> THEN normalize_string(VStr(x)) ELSE default

\* the complaint of process_pdf for the normalised text, transactions
\* being the list extract_transaction_ids returned
pdf_complaint(text, transactions) ==
  LET header_text == extract_section(text, <<"C","o","m","p","l","a","i","n","t"," ","T","y","p","e">>, <<"C","o","m","p","l","a","i","n","a","n","t"," ","D","e","t","a","i",
    "l","s">>)
      location_text == extract_section(text, <<"C","o","m","p","l","a","i","n","a","n","t"," ","D","e","t","a","i",
    "l","s">>, <<"S","u","s","p","e","c","t"," ","D","e","t","a","i","l","s">>)
      complaint_date == extract_complaint_date(text)
      incident_date == extract_incident_date(text)
  IN [Complaint_ID |->
        VStr(normalize_complaint_id(VStr(extract_complaint_id(header_text)))),
      Complaint_Date |->
        VStr(IF complaint_date # <<>> THEN complaint_date ELSE NotAvailable),
      Incident_Date |->
        VStr(IF incident_date # <<>> THEN incident_date ELSE NotAvailable),
      Category |-> VStr(NormalizedOr(extract_category(header_text), NotAvailable)),
      Sub_Category |->
        VStr(NormalizedOr(extract_sub_category(header_text), NotAvailable)),
      District |-> VStr(NormalizedOr(extract_district(location_text), NotAvailable)),
      State |-> VStr(NormalizedOr(extract_state(location_text), NotAvailable)),
      Amount_Lost |-> normalize_amount(extract_amount(text)),
      Status |-> VStr(NormalizedOr(extract_status(text), s_Pending)),
      Transaction_Count |-> VInt(Len(transactions)),
      Transaction_IDs |-> VList(transactions),
      Bank_Platform_Info |->
        VStr(NormalizedOr(extract_bank_platform_info(text), NotAvailable))]

\* process_pdf without the minimum length of the text
process_pdf_any_length(content) ==
  LET raw == extract_text_from_pdf(content.pages)
      text == normalize_text(raw)
      header_text == extract_section(text, <<"C","o","m","p","l","a","i","n","t"," ","T","y","p","e">>, <<"C","o","m","p","l","a","i","n","a","n","t"," ","D","e","t","a","i",
    "l","s">>)
      complaint_id_raw == extract_complaint_id(header_text)
  IN IF ~content.readable THEN {[raised |-> TRUE, complaints |-> <<>>]}
     ELSE IF complaint_id_raw = <<>> \/ ~AllDigits(complaint_id_raw)
             \/ Len(complaint_id_raw) < 10
     THEN {[raised |-> FALSE, complaints |-> <<>>]}
     ELSE {[raised |-> FALSE, complaints |-> <<pdf_complaint(text, transactions)>>] :
             transactions \in extract_transaction_ids(text)}

\* process_pdf without the guard on the identifier
process_pdf_ungated(content) ==
  LET raw == extract_text_from_pdf(content.pages)
      text == normalize_text(raw)
      header_text == extract_section(text, <<"C","o","m","p","l","a","i","n","t"," ","T","y","p","e">>, <<"C","o","m","p","l","a","i","n","a","n","t"," ","D","e","t","a","i",
    "l","s">>)
      complaint_id_raw == extract_complaint_id(header_text)
  IN IF ~content.readable THEN {[raised |-> TRUE, complaints |-> <<>>]}
     ELSE IF raw = <<>> \/ Len(Strip(raw)) < 50
     THEN {[raised |-> FALSE, complaints |-> <<>>]}
     ELSE {[raised |-> FALSE, complaints |-> <<pdf_complaint(text, transactions)>>] :
             transactions \in extract_transaction_ids(text)}

\* process_pdf(filepath) for a file with this content (readable says
\* whether pdfplumber opens it, pages are the page texts): the results it
\* can have, raised for the exception, complaints for the returned list
process_pdf(content) ==
  LET raw == extract_text_from_pdf(content.pages)
      text == normalize_text(raw)
      header_text == extract_section(text, <<"C","o","m","p","l","a","i","n","t"," ","T","y","p","e">>, <<"C","o","m","p","l","a","i","n","a","n","t"," ","D","e","t","a","i",
    "l","s">>)
      complaint_id_raw == extract_complaint_id(header_text)
  IN IF ~content.readable THEN {[raised |-> TRUE, complaints |-> <<>>]}
     ELSE IF raw = <<>> \/ Len(Strip(raw)) < 50
     THEN {[raised |-> FALSE, complaints |-> <<>>]}
     ELSE IF complaint_id_raw = <<>> \/ ~AllDigits(complaint_id_raw)
             \/ Len(complaint_id_raw) < 10
     THEN {[raised |-> FALSE, complaints |-> <<>>]}
     ELSE {[raised |-> FALSE, complaints |-> <<pdf_complaint(text, transactions)>>] :
             transactions \in extract_transaction_ids(text)}

\* the pieces of the text of a complaint report
d_complaint_type == <<"C","o","m","p","l","a","i","n","t"," ","T","y","p","e","\n">>
d_summary == <<"S","u","m","m","a","r","y"," ","o","f"," ","t","h","e"," ","c","a",
    "s","e","\n">>
d_complainant == <<"C","o","m","p","l","a","i","n","a","n","t"," ","D","e","t","a","i",
    "l","s","\n">>
d_suspect == <<"S","u","s","p","e","c","t"," ","D","e","t","a","i","l","s","\n">>
d_ack_colon == <<"A","c","k","n","o","w","l","e","d","g","e","m","e","n","t"," ","N",
    "u","m","b","e","r",":"," ","1","2","3","4","5","6","7","8","9","0",
    "\n">>
d_ack_newline == <<"A","c","k","n","o","w","l","e","d","g","e","m","e","n","t"," ","N",
    "u","m","b","e","r","\n","1","2","3","4","5","6","7","8","9","0","1",
    "\n">>
d_ack_suffixed == <<"C","o","m","p","l","a","i","n","t"," ","I","D",":"," ","1","2","3",
    "4","5","6","7","8","9","0","A","B","\n">>
d_ack_short == <<"A","c","k","n","o","w","l","e","d","g","e","m","e","n","t"," ","N",
    "u","m","b","e","r",":"," ","1","2","3","4","5","6","7","8","9","\n">>
d_ack_letters == <<"A","c","k","n","o","w","l","e","d","g","e","m","e","n","t"," ","N",
    "u","m","b","e","r",":"," ","A","B","1","2","3","4","5","6","7","8",
    "\n">>
d_details ==
  <<"C","a","t","e","g","o","r","y"," ","o","f"," ","c","o","m","p","l",
    "a","i","n","t","\n","f","i","n","a","n","c","i","a","l"," ","F","R",
    "A","U","D","\n","D","i","s","t","r","i","c","t","\n","P","u","n",
    "e"," ","S","t","a","t","e","\n","S","t","a","t","u","s",":"," ","u",
    "n","d","e","r"," ","r","e","v","i","e","w","\n">>
d_dates ==
  <<"C","o","m","p","l","a","i","n","t"," ","D","a","t","e","\n","1","0",
    "/","0","3","/","2","0","2","4","\n","I","n","c","i","d","e","n","t",
    " ","D","a","t","e","/","T","i","m","e","\n","0","1","/","0","3","/",
    "2","0","2","4","\n","T","o","t","a","l"," ","F","r","a","u","d","u",
    "l","e","n","t"," ","A","m","o","u","n","t"," ","r","e","p","o","r",
    "t","e","d"," ","b","y"," ","c","o","m","p","l","a","i","n","a","n",
    "t",":"," ","R","s","."," ","6","0",",","0","0","0",".","5","0","\n">>
d_bad_date == <<"I","n","c","i","d","e","n","t"," ","D","a","t","e","\n","3","1","/",
    "0","2","/","2","0","2","4","\n","p","a","i","d"," ","b","y"," ","U",
    "P","I","\n">>
d_utr_two == <<"U","T","R"," ","N","u","m","b","e","r",":"," ","U","T","R","1","2",
    "3","4","5","6","7","8","\n","T","r","a","n","s","a","c","t","i","o",
    "n"," ","I","D",":"," ","T","X","N","0","0","0","0","0","0","0","1",
    "\n">>
d_utr_same ==
  <<"U","T","R"," ","N","u","m","b","e","r",":"," ","U","T","R","1","2",
    "3","4","5","6","7","8","\n","U","T","R"," ","N","u","m","b","e","r",
    ":"," ","u","t","r","1","2","3","4","5","6","7","8","\n","T","r","a",
    "n","s","a","c","t","i","o","n"," ","R","e","f","e","r","e","n","c",
    "e",":"," ","U","T","R","1","2","3","4","5","6","7","8","\n">>
d_utr_short == <<"U","T","R"," ","N","u","m","b","e","r",":"," ","S","H","O","R","T",
    "1","2","\n">>

\* the reports: which pieces the text has, and where the identifier is
PdfShapes ==
  [header : BOOLEAN,
   id : {<<>>, d_ack_colon, d_ack_newline, d_ack_suffixed, d_ack_short,
         d_ack_letters},
   id_in_header : BOOLEAN,
   sections : BOOLEAN,
   details : {<<>>, d_details},
   dates : {<<>>, d_dates, d_bad_date},
   transactions : {<<>>, d_utr_two, d_utr_same, d_utr_short}]

\* the page texts of a report of this shape: the header on the first
\* page, a page without text, the rest on the third
PdfPages(p) ==
  << (IF p.header THEN d_complaint_type ELSE d_summary)
       \o (IF p.id_in_header THEN p.id ELSE <<>>)
       \o p.details,
     <<>>,
     (IF p.sections THEN d_complainant ELSE <<>>)
       \o (IF p.id_in_header THEN <<>> ELSE p.id)
       \o p.dates \o p.transactions
       \o (IF p.sections THEN d_suspect ELSE <<>>) >>

\* the files handed to process_pdf: the reports, a file without text and
\* a file pdfplumber cannot open
PdfContents ==
  {[readable |-> TRUE, pages |-> PdfPages(p)] : p \in PdfShapes}
  \cup {[readable |-> TRUE, pages |-> << <<>> >>],
        [readable |-> FALSE, pages |-> <<>>]}

InitPdf ==
  /\ fileState = "absent"
  /\ fileCols = <<>>
  /\ fileRows = <<>>
  /\ last = NoCall
  /\ nOps = 0
  /\ inv = [p \in Procs |-> Idle]
  /\ built = NoBuild
  /\ \E content \in PdfContents :
       fn = [NoFn EXCEPT !.pc = "pdf_call", !.arg = content]

\* process_pdf on the file
ProcessPdf ==
  /\ fn.pc = "pdf_call"
  /\ \E r \in process_pdf(fn.arg) :
       fn' = [fn EXCEPT !.pc = "pdf_done", !.res = r]
  /\ UNCHANGED <<fileState, fileCols, fileRows, last, nOps, inv, built>>

NextPdf == ProcessPdf

SpecPdf == InitPdf /\ [][NextPdf]_vars

(* --------------------------- app.py: upload_file ---------------------- *)

\* process_csv that returns the empty list for a file no encoding reads
process_csv_swallow(content) ==
  IF ~content.readable \/ content.rows = <<>>
  THEN {[raised |-> FALSE, complaints |-> <<>>]}
  ELSE {[raised |-> FALSE,
         complaints |->
           [i \in 1..Len(content.rows) |->
              process_csv_row(content.rows[i], i - 1, nows[i])]] :
          nows \in [1..Len(content.rows) -> Nows]}

\* process_csv(filepath) for a file with this content (readable says
\* whether read_csv succeeds under one of the four encodings, rows holds
\* the rows of the frame): the results it can have, one per reading of
\* the clock for each row
process_csv(content) ==
  IF ~content.readable THEN {[raised |-> TRUE, complaints |-> <<>>]}
  ELSE IF content.rows = <<>> THEN {[raised |-> FALSE, complaints |-> <<>>]}
  ELSE {[raised |-> FALSE,
         complaints |->
           [i \in 1..Len(content.rows) |->
              process_csv_row(content.rows[i], i - 1, nows[i])]] :
          nows \in [1..Len(content.rows) -> Nows]}

\* the keys of a record of the tabular strategy
TabularKeys ==
  {"Complaint_ID", "Complaint_Date", "Incident_Date", "Category",
   "Sub_Category", "District", "State", "Amount_Lost", "Status",
   "Transaction_Count", "Bank_Platform_Info"}

\* the record of one spreadsheet row: a missing column is the sentinel
\* for a text field and zero for a numeric field
process_excel_row(row) ==
  [k \in TabularKeys |->
     IF k \in DOMAIN row THEN row[k]
     ELSE IF k = "Amount_Lost" THEN VFlt(0)
     ELSE IF k = "Transaction_Count" THEN VInt(0)
     ELSE VStr(NotAvailable)]

\* process_excel(filepath): an unreadable workbook raises, a sheet
\* without rows gives the empty list, else one record per row
process_excel(content) ==
  IF ~content.readable THEN {[raised |-> TRUE, complaints |-> <<>>]}
  ELSE {[raised |-> FALSE,
         complaints |->
           [i \in 1..Len(content.rows) |-> process_excel_row(content.rows[i])]]}

\* filename.rsplit('.', 1)[1]
AfterLastDot(filename) ==
  LET dots == {i \in 1..Len(filename) : filename[i] = "."}
      last_dot == CHOOSE i \in dots : \A j \in dots : j <= i
  IN SubSeq(filename, last_dot + 1, Len(filename))

\* allowed_file(filename)
allowed_file(filename) ==
  /\ Contains(filename, <<".">>)
  /\ Lower(AfterLastDot(filename)) \in FileExts

\* the uploaded reports: a file pdfplumber cannot open, a file without
\* text, a text of 49 characters with a valid identifier, a report
\* without identifier, and two reports
u_pdf_unreadable == [readable |-> FALSE, pages |-> <<>>]
u_pdf_blank == [readable |-> TRUE, pages |-> << <<>> >>]
u_pdf_short ==
  [readable |-> TRUE, pages |-> <<d_complaint_type \o d_ack_colon>>]
u_pdf_no_id ==
  [readable |-> TRUE,
   pages |-> <<d_complaint_type \o d_details,
               d_complainant \o d_dates \o d_utr_two \o d_suspect>>]
u_pdf_report ==
  [readable |-> TRUE,
   pages |-> <<d_complaint_type \o d_ack_colon \o d_details,
               d_complainant \o d_dates \o d_utr_two \o d_suspect>>]
u_pdf_second ==
  [readable |-> TRUE,
   pages |-> <<d_complaint_type \o d_ack_newline,
               d_complainant \o d_bad_date \o d_utr_short \o d_suspect>>]

\* the rows of the uploaded tables: the identifier of the first report,
\* another identifier, and a row without identifier
r_known ==
  [Complaint_ID |-> VInt(1234567890), Complaint_Date |-> VStr(t_date_10),
   Incident_Date |-> VStr(t_date_01), Amount_Lost |-> VStr(t_60000),
   Transaction_IDs |-> VStr(t_utr)]
r_other == [Complaint_ID |-> VStr(t_A1), District |-> VStr(t_Pune)]
r_no_id == [State |-> VStr(t_Goa)]

\* the uploaded tables: a file no encoding reads, a table without rows,
\* and tables with rows
u_table_unreadable == [readable |-> FALSE, rows |-> <<>>]
u_table_empty == [readable |-> TRUE, rows |-> <<>>]

\* request.files['file'] of the requests: no file part, no file name,
\* names whose extension is not allowed, and files of each kind
Requests ==
  {[has_file |-> FALSE, filename |-> <<>>, content |-> u_table_unreadable],
   [has_file |-> TRUE, filename |-> <<>>, content |-> u_table_unreadable],
   [has_file |-> TRUE, filename |-> <<"n","o","t","e","s",".","t","x","t">>, content |-> u_table_empty],
   [has_file |-> TRUE, filename |-> <<"R","E","A","D","M","E">>, content |-> u_table_empty]}
  \cup {[has_file |-> TRUE, filename |-> <<"r","e","p","o","r","t",".","P","D","F">>, content |-> c] :
          c \in {u_pdf_unreadable, u_pdf_blank, u_pdf_short, u_pdf_no_id,
                 u_pdf_report, u_pdf_second}}
  \cup {[has_file |-> TRUE, filename |-> <<"e","x","p","o","r","t",".","v","2",".","c","s","v">>, content |-> c] :
          c \in {u_table_unreadable, u_table_empty,
                 [readable |-> TRUE, rows |-> <<r_known>>],
                 [readable |-> TRUE, rows |-> <<r_no_id>>],
                 [readable |-> TRUE, rows |-> <<r_other, r_known>>]}}
  \cup {[has_file |-> TRUE, filename |-> <<"b","o","o","k",".","x","l","s","x">>, content |-> c] :
          c \in {u_table_unreadable, u_table_empty,
                 [readable |-> TRUE, rows |-> <<r_other>>]}}
  \cup {[has_file |-> TRUE, filename |-> <<"o","l","d",".","x","l","s">>,
         content |-> [readable |-> TRUE, rows |-> <<r_other>>]]}

\* the results of the extractor the handler calls for file_ext, for the
\* requests with an allowed file name
extract(file_ext, content) ==
  IF file_ext = t_pdf THEN process_pdf(content)
  ELSE IF file_ext = t_csv THEN process_csv(content)
  ELSE process_excel(content)

\* what the handler has in hand when the extractor returns r: whether it
\* raised, complaints_data, and for these complaints the rows
\* append_to_master_excel builds and whether building them raises
Extracted(r, file_ext) ==
  [raised |-> r.raised,
   complaints |-> r.complaints,
   build_raises |->
     \E i \in 1..Len(r.complaints) :
       build_row_raises(enhance(r.complaints[i])),
   new_rows |->
     [i \in 1..Len(r.complaints) |->
        build_row_from_complaint(enhance(r.complaints[i]), file_ext)]]

\* the possible outcomes of the extraction, per request with an allowed
\* file name
UploadTable ==
  [request \in {q \in Requests : q.has_file /\ q.filename # <<>>
                                  /\ allowed_file(q.filename)} |->
     {Extracted(r, Lower(AfterLastDot(request.filename))) :
        r \in extract(Lower(AfterLastDot(request.filename)),
                      request.content)}]

\* jsonify({...}), status
Response(success, status, message, new_count, total_count) ==
  [success |-> success, status |-> status, message |-> message,
   new_complaints |-> new_count, total_complaints |-> total_count]

\* the handler returns without calling append_to_master_excel
Respond(request, response) ==
  /\ fn' = [pc |-> "responded", arg |-> request, res |-> response]
  /\ UNCHANGED <<fileState, fileCols, fileRows, last, nOps, inv, built>>

\* upload_file() for this request
upload_file(request) ==
  IF ~request.has_file
  THEN Respond(request, Response(FALSE, 400, "No file provided", 0, 0))
  ELSE IF request.filename = <<>>
  THEN Respond(request, Response(FALSE, 400, "No file selected", 0, 0))
  ELSE IF ~allowed_file(request.filename)
  THEN Respond(request, Response(FALSE, 400, "Invalid file type", 0, 0))
  ELSE
    LET file_ext == Lower(AfterLastDot(request.filename))
    IN \E r \in UploadTable[request] :
         IF r.raised
         THEN Respond(request,
                      Response(FALSE, 500, "Error processing file", 0, 0))
         ELSE IF r.complaints = <<>>
         THEN Respond(request,
                      Response(FALSE, 400,
                               "No complaint data extracted from file", 0, 0))
         ELSE /\ append_to_master_excel(r.complaints, file_ext,
                                        r.build_raises, r.new_rows)
              /\ UNCHANGED <<inv, built>>
              /\ fn' = [pc |-> "responded", arg |-> request,
                        res |-> IF last'.raised
                                THEN Response(FALSE, 500,
                                              "Error processing file", 0, 0)
                                ELSE Response(TRUE, 200,
                                              "Successfully processed",
                                              last'.new_count,
                                              last'.total_count)]

NextUpload == \E request \in Requests : upload_file(request)

SpecUpload == Init /\ [][NextUpload]_vars

(* ------------------------------ claims -------------------------------- *)

IdOf(row) == row["Complaint_ID"].s

TrimmedId(row) == Strip(PyStr(row["Complaint_ID"]))

ValidId(id) == id # <<>> /\ id # NotAvailable

MergeDone == last.op = "merge" /\ ~last.raised

\* the rows built from the batch of the last call
LastNewRows ==
  [i \in 1..Len(last.batch) |-> RowTable[last.batch[i]][last.ext]]

\* the positions of the batch the claims say are accepted: a usable
\* identifier that is neither in the loaded store nor carried by an
\* earlier row of the batch
ExpectedAccepted ==
  {i \in 1..Len(LastNewRows) :
     /\ ValidId(TrimmedId(LastNewRows[i]))
     /\ \A k \in 1..Len(last.existing) :
          TrimmedId(last.existing[k]) # TrimmedId(LastNewRows[i])
     /\ \A j \in 1..(i - 1) :
          TrimmedId(LastNewRows[j]) # TrimmedId(LastNewRows[i])}

RECURSIVE PickRows(_, _, _)
PickRows(rows, idx, i) ==
  IF i > Len(rows) THEN <<>>
  ELSE (IF i \in idx THEN <<rows[i]>> ELSE <<>>) \o PickRows(rows, idx, i + 1)

IsPrefix(p, q) == Len(p) <= Len(q) /\ \A i \in 1..Len(p) : q[i] = p[i]

\* C1: after any sequence of merges no two rows of the persisted store
\* share a Complaint_ID that is non-empty and not "Not Available".
C1_UniqueIds ==
  \A i, j \in 1..Len(fileRows) :
    (i # j /\ IdOf(fileRows[i]) = IdOf(fileRows[j]))
      => ~ValidId(IdOf(fileRows[i]))

\* C2: within one merge call the rows are processed in input order and a
\* row is accepted iff its trimmed identifier is non-empty, not the
\* sentinel, not in the loaded store and not that of a row accepted
\* earlier in the batch; of equal identifiers only the first is accepted.
C2_AcceptedIff ==
  MergeDone => last.accepted = PickRows(LastNewRows, ExpectedAccepted, 1)

\* a merge into a non-empty store whose batch repeats an identifier: one
\* row taken, one rejected as a repeat within the batch
C2_Witness ==
  /\ MergeDone
  /\ Len(last.existing) > 0
  /\ Len(last.accepted) = 1
  /\ \E i, j \in 1..Len(LastNewRows) :
       /\ i < j
       /\ i \in ExpectedAccepted
       /\ TrimmedId(LastNewRows[j]) = TrimmedId(LastNewRows[i])

\* C3: merge returns (newCount, totalCount): newCount rows were accepted,
\* totalCount rows are in the store afterwards, so totalCount is the row
\* count before the call plus newCount; a batch carrying one new
\* identifier twice gives newCount = 1.
C3_Counts ==
  MergeDone =>
    /\ last.new_count = Len(last.accepted)
    /\ last.total_count = Len(fileRows)
    /\ last.total_count = Len(last.beforeRows) + last.new_count
    /\ (/\ last.batch = <<c_sparse, c_sparse>>
        /\ \A k \in 1..Len(last.beforeRows) :
             TrimmedId(last.beforeRows[k]) # t_B2)
         => last.new_count = 1

\* the same new identifier twice in one batch, merged into a store that
\* already has a row
C3_Witness ==
  /\ MergeDone
  /\ last.batch = <<c_sparse, c_sparse>>
  /\ Len(last.beforeRows) = 1
  /\ last.new_count = 1
  /\ last.total_count = 2

\* C4: the rows persisted before a merge are, in order and with the same
\* value in every column, a prefix of the store after it; the accepted
\* rows follow in batch order; no earlier row is removed, reordered or
\* changed.
C4_AppendOnly ==
  (MergeDone /\ last.beforeState = "ok") =>
    /\ IsPrefix(last.beforeRows, fileRows)
    /\ SubSeq(fileRows, Len(last.beforeRows) + 1, Len(fileRows))
         = last.accepted

\* C5: merging an empty batch into a store written by merge leaves the
\* row count and every value of every row unchanged and returns
\* newCount = 0.
C5_EmptyBatch ==
  (MergeDone /\ last.batch = <<>> /\ last.beforeState = "ok") =>
    /\ fileRows = last.beforeRows
    /\ fileCols = last.beforeCols
    /\ last.new_count = 0

\* the lost-update situation of C6: both invocations have returned, they
\* loaded the same store state, and each accepted at least one row, with
\* no identifier in common
C6_Raced ==
  /\ \A p \in Procs : inv[p].pc = "done" /\ inv[p].new_count >= 1
  /\ inv[1].existing = inv[2].existing
  /\ \A i \in 1..Len(inv[1].accepted) : \A j \in 1..Len(inv[2].accepted) :
       TrimmedId(inv[1].accepted[i]) # TrimmedId(inv[2].accepted[j])

\* C6: two merges whose read-modify-write cycles interleave lose an
\* update: when both loaded the same store state and each accepted a row
\* with a distinct identifier and reported newCount >= 1, the persisted
\* store is what one of them (the last writer) wrote and holds none of
\* the rows the other accepted.
C6_LostUpdate ==
  C6_Raced =>
    \E w \in Procs :
      /\ fileRows = inv[w].combined
      /\ \A q \in Procs \ {w} : \A i \in 1..Len(inv[q].accepted) :
           \A k \in 1..Len(fileRows) : fileRows[k] # inv[q].accepted[i]

\* both invocations loaded the absent store, each reported one new row,
\* and the file holds one row only
C6_Witness ==
  /\ C6_Raced
  /\ inv[1].existing = <<>>
  /\ inv[1].new_count = 1 /\ inv[2].new_count = 1
  /\ Len(fileRows) = 1

\* C7: when the store file exists but cannot be read, merge does not
\* fail: it treats the store as empty, accepts every incoming row with a
\* valid, batch-unique identifier and returns newCount = totalCount.
C7_CorruptStore ==
  (last.op = "merge" /\ last.beforeState = "corrupt") =>
    /\ ~last.raised
    /\ last.existing = <<>>
    /\ last.new_count = last.total_count
    /\ fileState = "ok"
    /\ fileRows =
         PickRows(LastNewRows,
                  {i \in 1..Len(LastNewRows) :
                     /\ ValidId(TrimmedId(LastNewRows[i]))
                     /\ \A j \in 1..(i - 1) :
                          TrimmedId(LastNewRows[j]) # TrimmedId(LastNewRows[i])},
                  1)

\* a merge into an unreadable store that took two rows
C7_Witness ==
  /\ last.op = "merge"
  /\ last.beforeState = "corrupt"
  /\ last.new_count = 2
  /\ Len(fileRows) = 2

NumericColumns == {"Amount_Lost"} \cup IntColumns

\* C8: after any sequence of store-writing operations (the merge, and the
\* viewer's save on the same file) the persisted store has exactly the 16
\* fixed column names in the fixed order, and its Amount_Lost,
\* Transaction_Count, Data_Quality_Score and Reporting_Delay_Days cells
\* hold numbers only.
C8_StoreSchema ==
  fileState = "ok" =>
    /\ fileCols = COLUMNS
    /\ \A i \in 1..Len(fileRows) :
         /\ DOMAIN fileRows[i] = Range(COLUMNS)
         /\ \A c \in NumericColumns : fileRows[i][c].t \in {"int", "float"}

\* C9: for every enriched record, whatever subset of keys it has (none,
\* some, all, unknown extra ones), build_row_from_complaint returns a row
\* with exactly the 16 columns of COLUMNS and no others, and the
\* positional projection of the row is in the fixed COLUMNS order.
C9_FixedSchema ==
  built.pc = "built" =>
    /\ DOMAIN built.row = Range(COLUMNS)
    /\ Cardinality(DOMAIN built.row) = 16
    /\ Len(COLUMNS) = 16
    /\ Positional(built.row) =
         <<built.row.Complaint_ID, built.row.Complaint_Date,
           built.row.Incident_Date, built.row.Category,
           built.row.Sub_Category, built.row.District, built.row.State,
           built.row.Amount_Lost, built.row.Status,
           built.row.Transaction_Count, built.row.Data_Quality_Score,
           built.row.Investigation_Ready, built.row.Reporting_Delay_Days,
           built.row.Reporting_Delay_Status, built.row.Transaction_Pattern,
           built.row.Source_File_Type>>

\* a row built from a record that has an unknown key and lacks schema keys
C9_Witness ==
  /\ built.pc = "built"
  /\ "Bank_Platform_Info" \in DOMAIN built.complaint
  /\ "Category" \notin DOMAIN built.complaint
  /\ "Amount_Lost" \notin DOMAIN built.complaint
  /\ "Bank_Platform_Info" \notin DOMAIN built.row
  /\ Cardinality(DOMAIN built.row) = 16

\* the columns build_row_from_complaint fills from the record
C10_Columns == Range(COLUMNS) \ {"Source_File_Type"}

C12_NonNegative ==
  fn.pc = "amount_done" =>
    fn.res.amount.t = "float" /\ fn.res.amount.n >= 0

\* the text of an amount: only digits, commas, blanks, currency marks and
\* at most one decimal point, with a digit in it
C13_AmountText(v) ==
  /\ v.t = "str"
  /\ \A i \in 1..Len(v.s) :
       IsDigit(v.s[i]) \/ v.s[i] \in {",", ".", "₹", "R", "s"} \cup WS
  /\ Cardinality({i \in 1..Len(v.s) : v.s[i] = "."}) <= 1
  /\ \E i \in 1..Len(v.s) : IsDigit(v.s[i])

\* the number such a text denotes, in hundredths: currency marks, commas
\* and blanks dropped, the decimal point kept
C13_Value(v) ==
  LET kept == SelectSeq(v.s, LAMBDA c : IsDigit(c) \/ c = ".")
      dot == IF \E i \in 1..Len(kept) : kept[i] = "."
             THEN CHOOSE i \in 1..Len(kept) : kept[i] = "."
             ELSE Len(kept) + 1
      frac == SubSeq(SubSeq(kept, dot + 1, Len(kept)) \o <<"0", "0">>, 1, 2)
  IN DigitsToNat(SubSeq(kept, 1, dot - 1)) * 100 + DigitsToNat(frac)

\* C13: for an amount text of digits, commas, blanks, a currency mark and
\* at most one decimal point, normalize_amount and parse_amount drop only
\* the currency mark, commas and blanks and return the number that
\* remains, the decimal point keeping its place ("1,500.50" is 1500.50).
C13_DecimalKept ==
  (fn.pc = "amount_done" /\ C13_AmountText(fn.arg)) =>
    /\ fn.res.amount = VFlt(C13_Value(fn.arg))
    /\ fn.res.parsed = VFlt(C13_Value(fn.arg))

\* the text of key is there, non-empty and not the sentinel
C14_Has(record, key) ==
  /\ key \in DOMAIN record
  /\ record[key].s # <<>>
  /\ record[key].s # NotAvailable

\* the number of key is there and above zero
C14_Positive(record, key) == key \in DOMAIN record /\ record[key].n > 0

\* C14: Data_Quality_Score is 20 times the number of conditions that hold
\* among: Complaint_ID present, Complaint_Date present, Amount_Lost > 0,
\* District and State both present, Transaction_Count > 0; it is one of
\* 0, 20, 40, 60, 80, 100.
C14_Score ==
  fn.pc = "enriched" =>
    /\ fn.res["Data_Quality_Score"] =
         VInt(20 * Cardinality(
           {c \in 1..5 :
              \/ c = 1 /\ C14_Has(fn.arg, "Complaint_ID")
              \/ c = 2 /\ C14_Has(fn.arg, "Complaint_Date")
              \/ c = 3 /\ C14_Positive(fn.arg, "Amount_Lost")
              \/ c = 4 /\ C14_Has(fn.arg, "District")
                       /\ C14_Has(fn.arg, "State")
              \/ c = 5 /\ C14_Positive(fn.arg, "Transaction_Count")}))
    /\ fn.res["Data_Quality_Score"].n \in {0, 20, 40, 60, 80, 100}

\* a record with a district but no state, and nothing else that counts
\* but the identifier: score 20
C14_Witness ==
  /\ fn.pc = "enriched"
  /\ C14_Has(fn.arg, "Complaint_ID")
  /\ C14_Has(fn.arg, "District")
  /\ ~C14_Has(fn.arg, "State")
  /\ fn.res["Data_Quality_Score"] = VInt(20)

\* C15: Investigation_Ready is YES iff Amount_Lost > 0 and
\* Transaction_Count > 0 and Bank_Platform_Info is present (non-empty, not
\* "Not Available"); it is NO otherwise.
C15_Ready ==
  fn.pc = "enriched" =>
    fn.res["Investigation_Ready"] =
      VStr(IF /\ C14_Positive(fn.arg, "Amount_Lost")
              /\ C14_Positive(fn.arg, "Transaction_Count")
              /\ C14_Has(fn.arg, "Bank_Platform_Info")
           THEN s_YES ELSE s_NO)

\* amount and transactions are there but the bank is the sentinel: NO
C15_Witness ==
  /\ fn.pc = "enriched"
  /\ C14_Positive(fn.arg, "Amount_Lost")
  /\ C14_Positive(fn.arg, "Transaction_Count")
  /\ "Bank_Platform_Info" \in DOMAIN fn.arg
  /\ fn.arg["Bank_Platform_Info"] = VStr(NotAvailable)
  /\ fn.res["Investigation_Ready"] = VStr(s_NO)

\* days before the first of each month in a common year
C16_Cumulative == <<0, 31, 59, 90, 120, 151, 181, 212, 243, 273, 304, 334>>

\* the ordinal of the calendar day written YYYY-MM-DD
C16_Ordinal(text) ==
  LET y == DigitsToNat(SubSeq(text, 1, 4))
      m == DigitsToNat(SubSeq(text, 6, 7))
      d == DigitsToNat(SubSeq(text, 9, 10))
      leap == (y % 4 = 0 /\ y % 100 # 0) \/ y % 400 = 0
  IN 365 * (y - 1) + ((y - 1) \div 4) - ((y - 1) \div 100)
       + ((y - 1) \div 400) + C16_Cumulative[m]
       + (IF leap /\ m > 2 THEN 1 ELSE 0) + d

\* C16: calculate_reporting_delay gives (0, NOT_AVAILABLE) when
\* Complaint_Date or Incident_Date is missing, empty or the sentinel;
\* otherwise the whole days from Incident_Date to Complaint_Date, negative
\* ones kept, with DELAYED exactly when the difference is above 7 and
\* ON_TIME otherwise (7, 0 and negative differences are ON_TIME).
C16_Delay ==
  fn.pc = "enriched" =>
    LET days == fn.res["Reporting_Delay_Days"]
        status == fn.res["Reporting_Delay_Status"]
    IN IF C14_Has(fn.arg, "Complaint_Date") /\ C14_Has(fn.arg, "Incident_Date")
       THEN LET diff == C16_Ordinal(fn.arg["Complaint_Date"].s)
                          - C16_Ordinal(fn.arg["Incident_Date"].s)
            IN /\ days = VInt(diff)
               /\ status = VStr(IF diff > 7 THEN s_DELAYED ELSE s_ON_TIME)
       ELSE days = VInt(0) /\ status = VStr(s_NOT_AVAILABLE)

\* a difference of exactly seven days is ON_TIME
C16_Witness ==
  /\ fn.pc = "enriched"
  /\ "Complaint_Date" \in DOMAIN fn.arg
  /\ "Incident_Date" \in DOMAIN fn.arg
  /\ fn.arg["Complaint_Date"] = VStr(t_date_08)
  /\ fn.arg["Incident_Date"] = VStr(t_date_01)
  /\ fn.res["Reporting_Delay_Days"] = VInt(7)
  /\ fn.res["Reporting_Delay_Status"] = VStr(s_ON_TIME)

\* the number of key in hundredths, 0 for a missing key
C17_Number(record, key) == IF key \in DOMAIN record THEN record[key].n ELSE 0

\* C17: Transaction_Pattern is SINGLE_LARGE iff Transaction_Count = 1 and
\* Amount_Lost > 50000; MULTIPLE_SMALL iff Transaction_Count > 1 and
\* Amount_Lost / Transaction_Count < 10000; MIXED in every other case
\* (no transaction, one with Amount_Lost <= 50000, several averaging
\* 10000 or more).
C17_Pattern ==
  fn.pc = "enriched" =>
    LET count == C17_Number(fn.arg, "Transaction_Count")
        amount == C17_Number(fn.arg, "Amount_Lost")
        single == count = 1 /\ amount > 5000000
        small == count > 1 /\ (amount \div count) < 1000000
        pattern == fn.res["Transaction_Pattern"]
    IN /\ pattern = VStr(s_SINGLE_LARGE) <=> single
       /\ pattern = VStr(s_MULTIPLE_SMALL) <=> small
       /\ pattern = VStr(s_MIXED) <=> (~single /\ ~small)

\* three transactions averaging exactly 10000 are MIXED
C17_Witness ==
  /\ fn.pc = "enriched"
  /\ C17_Number(fn.arg, "Transaction_Count") = 3
  /\ C17_Number(fn.arg, "Amount_Lost") = 3000000
  /\ fn.res["Transaction_Pattern"] = VStr(s_MIXED)

\* the tabular row of Scenario A, its one transaction given as the
\* Transaction_IDs cell the extraction counts
C18_Row ==
  [Complaint_ID |-> VInt(1234567890), Complaint_Date |-> VStr(t_date_10),
   Incident_Date |-> VStr(t_date_01), Amount_Lost |-> VStr(t_60000),
   Transaction_IDs |-> VStr(t_utr), Bank_Platform_Info |-> VStr(t_SBI)]

\* the same row with a Transaction_Count cell as well
C18_RowWithCount ==
  [Complaint_ID |-> VInt(1234567890), Complaint_Date |-> VStr(t_date_10),
   Incident_Date |-> VStr(t_date_01), Amount_Lost |-> VStr(t_60000),
   Transaction_Count |-> VInt(1),
   Transaction_IDs |-> VStr(t_utr), Bank_Platform_Info |-> VStr(t_SBI)]

\* the row with a Transaction_Count cell and no Transaction_IDs cell
C18_RowCountOnly ==
  [Complaint_ID |-> VInt(1234567890), Complaint_Date |-> VStr(t_date_10),
   Incident_Date |-> VStr(t_date_01), Amount_Lost |-> VStr(t_60000),
   Transaction_Count |-> VInt(1), Bank_Platform_Info |-> VStr(t_SBI)]

C18_IsScenarioA == fn.pc = "csv_done" /\ fn.arg \in {C18_Row, C18_RowWithCount}

C19_NoDate(row, key) == key \notin DOMAIN row \/ ~NotNa(row[key])

\* C19, Scenario C: a tabular row with neither a complaint date nor an
\* incident date, taken through the tabular extraction and the
\* enrichment, has Reporting_Delay_Days 0 and Reporting_Delay_Status
\* NOT_AVAILABLE.
C19_ScenarioC ==
  (/\ fn.pc = "csv_done"
   /\ C19_NoDate(fn.arg, "Complaint_Date")
   /\ C19_NoDate(fn.arg, "Incident_Date")) =>
    /\ fn.res.enhanced["Reporting_Delay_Days"] = VInt(0)
    /\ fn.res.enhanced["Reporting_Delay_Status"] = VStr(s_NOT_AVAILABLE)

\* C20: every row the upload pipeline persists has Source_File_Type PDF,
\* CSV or EXCEL, whatever the kind of the upload (pdf, csv, xlsx, xls).
C20_SourceKinds ==
  fileState = "ok" =>
    \A i \in 1..Len(fileRows) :
      fileRows[i]["Source_File_Type"].s
        \in {<<"P","D","F">>, <<"C","S","V">>, <<"E","X","C","E","L">>}

\* C21: extraction is a function of the content alone: the records
\* extracted from the same content at any two times are equal in every
\* field (identifiers, dates and values).
C21_SameAtAnyTime ==
  fn.pc = "csv_done" =>
    \A now \in Nows : process_csv_row(fn.arg, 0, now) = fn.res.complaint

\* C24: in every extracted record Transaction_IDs is a list of pairwise
\* distinct texts of at least 8 characters each and Transaction_Count is
\* the length of that list.
C24_Transactions ==
  fn.pc = "csv_done" =>
    LET ids == fn.res.complaint["Transaction_IDs"].s
    IN /\ \A i \in 1..Len(ids) : Len(ids[i]) >= 8
       /\ \A i, j \in 1..Len(ids) : i # j => ids[i] # ids[j]
       /\ fn.res.complaint["Transaction_Count"] = VInt(Len(ids))

\* C25: in the record of a tabular row every text field other than the
\* identifier whose column the source lacks is "Not Available", and
\* Amount_Lost and Transaction_Count are zero when the source has no
\* column for them.
C25_AbsentDefaults ==
  fn.pc = "csv_done" =>
    /\ \A k \in {"Complaint_Date", "Incident_Date", "Category", "Sub_Category",
                 "District", "State", "Bank_Platform_Info"} :
         k \notin DOMAIN fn.arg => fn.res.complaint[k] = VStr(NotAvailable)
    /\ "Amount_Lost" \notin DOMAIN fn.arg
         => Num100(fn.res.complaint["Amount_Lost"]) = 0
    /\ ("Transaction_Count" \notin DOMAIN fn.arg
          /\ "Transaction_IDs" \notin DOMAIN fn.arg)
         => fn.res.complaint["Transaction_Count"] = VInt(0)

\* a record whose Complaint_ID is missing, empty, a null token or the
\* sentinel
C22_InvalidId(c) ==
  \/ "Complaint_ID" \notin DOMAIN c
  \/ ~NotNa(c["Complaint_ID"])
  \/ LET t == Strip(PyStr(c["Complaint_ID"]))
     IN t = <<>> \/ t = NotAvailable \/ Lower(t) \in NullTokens

\* the last call merged a batch that has rows without a usable identifier
\* next to rows with one
C22_MixedBatch ==
  /\ last.op = "merge"
  /\ \E i \in 1..Len(last.batch) : C22_InvalidId(last.batch[i])
  /\ \E i \in 1..Len(last.batch) : ~C22_InvalidId(last.batch[i])

\* C22: a batch mixing rows with a missing, empty or sentinel Complaint_ID
\* and rows with valid identifiers does not make merge fail: the call
\* returns, the rows it accepts are exactly the valid ones that repeat
\* neither a loaded row nor an earlier row of the batch, they are the
\* rows appended to the store, and newCount counts them.
C22_MixedBatchMerges ==
  C22_MixedBatch =>
    /\ ~last.raised
    /\ fileState = "ok"
    /\ last.accepted =
         PickRows(LastNewRows,
                  {i \in 1..Len(last.batch) :
                     /\ ~C22_InvalidId(last.batch[i])
                     /\ \A k \in 1..Len(last.existing) :
                          TrimmedId(last.existing[k]) # TrimmedId(LastNewRows[i])
                     /\ \A j \in 1..(i - 1) :
                          TrimmedId(LastNewRows[j]) # TrimmedId(LastNewRows[i])},
                  1)
    /\ last.new_count = Len(last.accepted)
    /\ SubSeq(fileRows, Len(fileRows) - last.new_count + 1, Len(fileRows))
         = last.accepted
    /\ last.total_count = Len(fileRows)

\* a null-token row, a valid row and a sentinel row merged into a store
\* that has a row: the one valid row is taken
C22_Witness ==
  /\ C22_MixedBatch
  /\ last.batch = <<c_null, c_full, c_sentinel>>
  /\ Len(last.existing) = 1
  /\ last.new_count = 1
  /\ last.total_count = 2

\* C28: merging the same batch twice in succession changes nothing the
\* second time: the second merge accepts no row, returns the totalCount
\* of the first and leaves the rows of the store and their order as they
\* were.
C28_SecondMergeIdle ==
  [][(/\ MergeDone
      /\ last'.op = "merge" /\ ~last'.raised
      /\ last'.batch = last.batch /\ last'.ext = last.ext)
     => (/\ last'.new_count = 0
         /\ last'.total_count = last.total_count
         /\ fileRows' = fileRows)]_vars

\* C30: every row persisted by append_to_master_excel has a
\* Reporting_Delay_Status of ON_TIME, DELAYED or NOT_AVAILABLE, DELAYED
\* exactly when Reporting_Delay_Days is above 7, and Reporting_Delay_Days
\* 0 when the status is NOT_AVAILABLE; the values a record arrived with
\* are recomputed.
C30_DelayFields ==
  fileState = "ok" =>
    \A i \in 1..Len(fileRows) :
      LET status == fileRows[i]["Reporting_Delay_Status"]
          days == fileRows[i]["Reporting_Delay_Days"]
      IN /\ status.t = "str" /\ days.t = "int"
         /\ status.s \in {s_ON_TIME, s_DELAYED, s_NOT_AVAILABLE}
         /\ (status.s = s_DELAYED) <=> (days.n > 7)
         /\ (status.s = s_NOT_AVAILABLE) => (days.n = 0)

\* the record that arrived with 3 days and UNKNOWN is persisted with the
\* recomputed 9 days and DELAYED, next to a row without dates
C30_Witness ==
  /\ MergeDone
  /\ last.batch = <<c_carried>>
  /\ \E i \in 1..Len(fileRows) :
       /\ IdOf(fileRows[i]) = t_D4
       /\ fileRows[i]["Reporting_Delay_Days"] = VInt(9)
       /\ fileRows[i]["Reporting_Delay_Status"] = VStr(s_DELAYED)
  /\ \E i \in 1..Len(fileRows) :
       /\ fileRows[i]["Reporting_Delay_Days"] = VInt(0)
       /\ fileRows[i]["Reporting_Delay_Status"] = VStr(s_NOT_AVAILABLE)

\* C29: whatever the interleaving of the load, filter and write steps of
\* several merges on the same store, every store state that is persisted
\* has non-empty, non-sentinel Complaint_IDs that are pairwise distinct
\* (the store starts without duplicates).
C29_PersistedUnique ==
  fileState = "ok" =>
    /\ \A i \in 1..Len(fileRows) : ValidId(TrimmedId(fileRows[i]))
    /\ \A i, j \in 1..Len(fileRows) :
         i # j => TrimmedId(fileRows[i]) # TrimmedId(fileRows[j])

\* C26: process_pdf returns a record only when the identifier captured
\* from the header section (the text between "Complaint Type" and
\* "Complainant Details") is a string of digits of length 10 or more, and
\* the record carries that identifier; when no identifier is captured, or
\* it has a character that is no digit, or fewer than 10 digits,
\* process_pdf returns the empty list and does not raise.
C26_DigitIdOrNothing ==
  (fn.pc = "pdf_done" /\ fn.arg.readable) =>
    LET text == normalize_text(extract_text_from_pdf(fn.arg.pages))
        id == extract_complaint_id(
                extract_section(text, <<"C","o","m","p","l","a","i","n","t"," ","T","y","p","e">>, <<"C","o","m","p","l","a","i","n","a","n","t"," ","D","e","t","a","i",
    "l","s">>))
        digit_id == /\ Len(id) >= 10
                    /\ \A i \in 1..Len(id) : id[i] \in Range(Digits)
    IN /\ ~fn.res.raised
       /\ Len(fn.res.complaints) <= 1
       /\ fn.res.complaints # <<>> =>
            /\ digit_id
            /\ fn.res.complaints[1].Complaint_ID = VStr(id)
       /\ ~digit_id => fn.res.complaints = <<>>

\* a report of 50 characters or more whose header has the label followed
\* by nine digits: nothing is returned
C26_Witness ==
  /\ fn.pc = "pdf_done"
  /\ fn.arg.readable
  /\ Len(Strip(extract_text_from_pdf(fn.arg.pages))) >= 50
  /\ Contains(fn.arg.pages[1], d_complaint_type \o d_ack_short)
  /\ fn.res = [raised |-> FALSE, complaints |-> <<>>]

\* the request carries a file of an allowed kind that no reading strategy
\* reads: a PDF pdfplumber cannot open, a CSV no encoding reads
UnreadableUpload(request) ==
  /\ request.has_file
  /\ Contains(request.filename, <<".">>)
  /\ Lower(AfterLastDot(request.filename)) \in {t_pdf, t_csv}
  /\ ~request.content.readable

\* C23: an upload whose file is unreadable is answered with the failure
\* response of an error (success false, status 500), and the step that
\* handles it calls no merge (the call count and the record of the last
\* merge are as before) and leaves the workbook as it was, so only this
\* file's processing is aborted.
C23_UnreadableUpload ==
  [][(fn'.pc = "responded" /\ UnreadableUpload(fn'.arg)) =>
       /\ ~fn'.res.success
       /\ fn'.res.status = 500
       /\ fn'.res.message = "Error processing file"
       /\ nOps' = nOps
       /\ last' = last
       /\ UNCHANGED <<fileState, fileCols, fileRows>>]_vars

\* an unreadable CSV answered with an error while the workbook holds rows
\* of earlier uploads
C23_Witness ==
  /\ fn.pc = "responded"
  /\ UnreadableUpload(fn.arg)
  /\ Lower(AfterLastDot(fn.arg.filename)) = t_csv
  /\ fn.res.status = 500
  /\ fileState = "ok"
  /\ Len(fileRows) >= 2
  /\ MergeDone

\* the request carries a readable PDF whose text has fewer than 50
\* characters after trimming, or a readable CSV without rows
EmptyUpload(request) ==
  /\ request.has_file
  /\ Contains(request.filename, <<".">>)
  /\ request.content.readable
  /\ \/ /\ Lower(AfterLastDot(request.filename)) = t_pdf
        /\ LET pages == request.content.pages
               joined == [i \in 1..Len(pages) |->
                            IF pages[i] = <<>> THEN <<>>
                            ELSE pages[i] \o <<"\n">>]
               chars == IF Len(joined) = 0 THEN <<>>
                        ELSE IF Len(joined) = 1 THEN joined[1]
                        ELSE joined[1] \o joined[2]
           IN Len(pages) <= 2 /\ Len(Strip(chars)) < 50
     \/ /\ Lower(AfterLastDot(request.filename)) = t_csv
        /\ request.content.rows = <<>>

\* C27: an upload of a document with fewer than 50 trimmed characters of
\* text, or of a table without rows, is answered "No complaint data
\* extracted from file" (status 400, not the error of a raised
\* exception), and the step that handles it calls no merge and leaves the
\* workbook as it was.
C27_EmptyUpload ==
  [][(fn'.pc = "responded" /\ EmptyUpload(fn'.arg)) =>
       /\ ~fn'.res.success
       /\ fn'.res.status = 400
       /\ fn'.res.message = "No complaint data extracted from file"
       /\ nOps' = nOps
       /\ last' = last
       /\ UNCHANGED <<fileState, fileCols, fileRows>>]_vars

\* a 49-character report with a valid identifier answered "no data"
\* while the workbook holds a row of an earlier upload
C27_Witness ==
  /\ fn.pc = "responded"
  /\ fn.arg.content = u_pdf_short
  /\ EmptyUpload(fn.arg)
  /\ fn.res.message = "No complaint data extracted from file"
  /\ fileState = "ok"
  /\ Len(fileRows) >= 1

====
